---- MODULE Spec2Model ----
(***************************************************************************)
(* A model of takopi's Codex runner (src/src/takopi/runners/codex.py):     *)
(* the subprocess supervisor manage_subprocess, the JSON-lines translation *)
(* loop of CodexRunner._run, and the per-session lock registry of          *)
(* CodexRunner.run.                                                        *)
(*                                                                         *)
(* A run is an async generator.  It is suspended either at an await (the   *)
(* event loop may then run another task, the process may make progress,    *)
(* and a cancellation may be delivered) or at a yield (the caller holds    *)
(* the event and resumes the run by asking for the next one).  Every       *)
(* action below is the code between two such suspension points.            *)
(*                                                                         *)
(* Python values: None of a string-valued slot is the string None, JSON    *)
(* true/false and Optional[bool] are the strings "True"/"False"/None so    *)
(* that every slot holds values of one kind.  A dict is a record; a key    *)
(* that is absent is a field that is absent (see Get).                     *)
(***************************************************************************)
EXTENDS Integers, Sequences, FiniteSets, TLC

\* ------------------------------------------------------------------ bounds

\* Stdout lines one process writes before it closes stdout.
MaxLines == 3

\* Stdout lines per process when two runs are interleaved (SpecLocks).
MaxLockLines == 1

\* Stderr lines one process writes.
MaxStderr == 1

\* Stdout lines of a run that only translates (SpecTranslate).
MaxTranslateLines == 3

\* Pieces of data a pipe holds before a write to it blocks (SpecPipes).
PipeCapacity == 1

\* Pieces of the longest prompt (SpecPipes).
MaxPrompt == 2

\* Pieces of output a process writes before it reads stdin (SpecPipes).
MaxOut == 2

\* ------------------------------------------------------- program constants

ENGINE == "codex"

STDERR_TAIL_LINES == 200

None == "None"

\* `rc: int | None = None`, `proc.returncode is None`: None in an int slot.
NoneInt == -1

\* A ResumeToken slot holding None.
NoToken == [engine |-> None, value |-> None]

ResumeToken(engine, value) == [engine |-> engine, value |-> value]

\* self.session_title
session_title == "Codex"

\* dict.get(key): None when the key is absent.
Get(d, k) == IF k \in DOMAIN d THEN d[k] ELSE None

\* `x or default` for string-valued x.
Or(x, default) == IF x \in {None, ""} THEN default ELSE x

\* ---------------------------------------------------------- event builders

_started_event(token, title) ==
    [type |-> "StartedEvent", engine |-> token.engine, resume |-> token,
     title |-> title]

_completed_event(resume, ok, answer, error, usage) ==
    [type |-> "CompletedEvent", engine |-> ENGINE, ok |-> ok,
     answer |-> answer, resume |-> resume, error |-> error, usage |-> usage]

_action_event(phase, action_id, kind, title, detail, ok, message, level) ==
    [type |-> "ActionEvent", engine |-> ENGINE,
     action |-> [id |-> action_id, kind |-> kind, title |-> title,
                 detail |-> detail],
     phase |-> phase, ok |-> ok, message |-> message, level |-> level]

\* The empty dict `detail or {}`.
NoDetail == [none |-> None]

_note_completed(action_id, message, ok, detail) ==
    _action_event("completed", action_id, "warning", message, detail, ok,
                  message, IF ok = "False" THEN "warning" ELSE "info")

\* ------------------------------------------------------- item translation

\* A kind table that files tool_call items under commands.
_ACTION_KIND_MAP_tool_call_is_command ==
    [command_execution |-> "command", mcp_tool_call |-> "tool",
     tool_call |-> "command", web_search |-> "web_search",
     file_change |-> "file_change", reasoning |-> "note",
     todo_list |-> "note"]

_ACTION_KIND_MAP ==
    [command_execution |-> "command", mcp_tool_call |-> "tool",
     tool_call |-> "tool", web_search |-> "web_search",
     file_change |-> "file_change", reasoning |-> "note",
     todo_list |-> "note"]

\* item.get("type") or item.get("item_type"), assistant_message normalised.
ItemType(item) ==
    LET t == Or(Get(item, "type"), Get(item, "item_type"))
    IN  IF t = "assistant_message" THEN "agent_message" ELSE t

\* etype.split(".")[-1]
PhaseOf(etype) ==
    CASE etype = "item.started" -> "started"
      [] etype = "item.updated" -> "updated"
      [] etype = "item.completed" -> "completed"

_short_tool_name(item) ==
    LET server == Get(item, "server")
        tool == Get(item, "tool")
    IN  IF server \notin {None, ""} /\ tool \notin {None, ""}
        THEN server \o "." \o tool
        ELSE Or(Or(server, tool), "tool")

\* The events of one item record of phase `phase` and mapped kind `kind`.
ItemAction(phase, item, item_type, kind, action_id) ==
    CASE kind = "command" ->
           LET title == Or(Get(item, "command"), "")
               ok == /\ Get(item, "status") # "failed"
                     /\ ("exit_code" \in DOMAIN item => item.exit_code = "0")
           IN  IF phase = "completed"
               THEN << _action_event("completed", action_id, kind, title,
                          [exit_code |-> Get(item, "exit_code"),
                           status |-> Get(item, "status")],
                          IF ok THEN "True" ELSE "False", None, None) >>
               ELSE << _action_event(phase, action_id, kind, title, NoDetail,
                          None, None, None) >>
      [] kind = "tool" ->
           LET title == IF item_type = "tool_call"
                        THEN Or(Get(item, "name"), "tool")
                        ELSE _short_tool_name(item)
               detail == [status |-> Get(item, "status"),
                          error_message |-> IF phase = "completed"
                                            THEN Get(item, "error") ELSE None]
               ok == /\ Get(item, "status") # "failed"
                     /\ Get(item, "error") \in {None, ""}
           IN  IF phase = "completed"
               THEN << _action_event("completed", action_id, kind, title,
                          detail, IF ok THEN "True" ELSE "False", None, None) >>
               ELSE << _action_event(phase, action_id, kind, title, detail,
                          None, None, None) >>
      [] kind = "web_search" ->
           LET title == Or(Get(item, "query"), "")
               detail == [query |-> Get(item, "query")]
           IN  << _action_event(phase, action_id, kind, title, detail,
                      IF phase = "completed" THEN "True" ELSE None,
                      None, None) >>
      [] kind = "file_change" ->
           IF phase # "completed" THEN << >>
           ELSE << _action_event("completed", action_id, kind,
                       Or(Get(item, "changes"), "files"),
                       [status |-> Get(item, "status"),
                        error |-> Get(item, "error")],
                       IF Get(item, "status") # "failed" THEN "True"
                       ELSE "False", None, None) >>
      [] kind = "note" ->
           LET title == IF item_type = "todo_list" THEN "todo"
                        ELSE Or(Get(item, "text"), "")
           IN  << _action_event(phase, action_id, kind, title, NoDetail,
                      IF phase = "completed" THEN "True" ELSE None,
                      None, None) >>

_translate_item_event(etype, item) ==
    LET item_type == ItemType(item)
        action_id == Get(item, "id")
        phase == PhaseOf(etype)
    IN  IF item_type \in {None, ""} THEN << >>
        ELSE IF item_type = "agent_message" THEN << >>
        ELSE IF action_id \in {None, ""} THEN << >>
        ELSE IF item_type = "error"
        THEN IF phase # "completed" THEN << >>
             ELSE LET message == Or(Get(item, "message"), "codex item error")
                  IN  << _action_event("completed", action_id, "warning",
                             message, [message |-> message], "False",
                             message, "warning") >>
        ELSE IF item_type \notin DOMAIN _ACTION_KIND_MAP THEN << >>
        ELSE ItemAction(phase, item, item_type, _ACTION_KIND_MAP[item_type],
                        action_id)

translate_codex_event(event, title) ==
    LET etype == Get(event, "type")
    IN  IF etype = "thread.started"
        THEN IF Get(event, "thread_id") \notin {None, ""}
             THEN << _started_event(ResumeToken(ENGINE, event.thread_id),
                                    title) >>
             ELSE << >>
        ELSE IF etype \in {"item.started", "item.updated", "item.completed"}
        THEN _translate_item_event(etype,
                 IF "item" \in DOMAIN event THEN event.item ELSE NoDetail)
        ELSE << >>

\* ------------------------------------------------- the translation loop

\* The locals of _run that the stdout loop reads and writes (lines 575-580).
LoopInit ==
    [found_session |-> NoToken, final_answer |-> None, note_seq |-> 0,
     did_emit_completed |-> FALSE, turn_index |-> 0]

\* next_note_id(): the id it returns; the caller stores note_seq + 1.
next_note_id(st) == "codex.note." \o ToString(st.note_seq + 1)

\* The caller's token, whatever session the process announced.
resume_token_only(st, resume_token) == resume_token

\* `found_session or resume_token`
resume_for_completed(st, resume_token) ==
    IF st.found_session # NoToken THEN st.found_session ELSE resume_token

\* What one pass of the loop body does: the locals afterwards, the events
\* it yields, the exception it raises (None when it raises none) and
\* whether it first has to acquire the lock of a newly announced session.
Outcome(st, out, exc, acquire) ==
    [st |-> st, out |-> out, exc |-> exc, acquire |-> acquire]

\* CaptureAnswer that keeps the first answer it saw.
CaptureAnswer_first(st, evt) ==
    IF /\ Get(evt, "type") = "item.completed"
       /\ "item" \in DOMAIN evt
       /\ ItemType(evt.item) = "agent_message"
       /\ "text" \in DOMAIN evt.item
       /\ st.final_answer = None
    THEN [st EXCEPT !.final_answer = evt.item.text]
    ELSE st

\* Lines 680-694: an item.completed agent message becomes the answer.
CaptureAnswer(st, evt) ==
    IF /\ Get(evt, "type") = "item.completed"
       /\ "item" \in DOMAIN evt
       /\ ItemType(evt.item) = "agent_message"
       /\ "text" \in DOMAIN evt.item
    THEN [st EXCEPT !.final_answer = evt.item.text]
    ELSE st

\* Translated with a StartedEvent for every thread.started record.
Translated_every_started(st, resume_token, evt) ==
    LET outs == translate_codex_event(evt, session_title)
    IN  IF outs = << >> THEN Outcome(st, << >>, None, FALSE)
        ELSE IF outs[1].type # "StartedEvent"
        THEN Outcome(st, outs, None, FALSE)
        ELSE IF resume_token # NoToken /\ outs[1].resume # resume_token
        THEN Outcome(st, << >>, "RuntimeError: session mismatch", FALSE)
        ELSE Outcome([st EXCEPT !.found_session =
                          IF @ = NoToken THEN outs[1].resume ELSE @],
                     outs, None,
                     resume_token = NoToken /\ st.found_session = NoToken)

\* Translated without the acquisition of the announced session's lock.
Translated_no_acquire(st, resume_token, evt) ==
    LET outs == translate_codex_event(evt, session_title)
    IN  IF outs = << >> THEN Outcome(st, << >>, None, FALSE)
        ELSE IF outs[1].type # "StartedEvent"
        THEN Outcome(st, outs, None, FALSE)
        ELSE IF st.found_session # NoToken
        THEN Outcome(st, << >>, None, FALSE)
        ELSE IF resume_token # NoToken /\ outs[1].resume # resume_token
        THEN Outcome(st, << >>, "RuntimeError: session mismatch", FALSE)
        ELSE Outcome([st EXCEPT !.found_session = outs[1].resume], outs,
                     None, FALSE)

\* Lines 696-719: the events of translate_codex_event, a StartedEvent
\* checked against the expected session.
Translated(st, resume_token, evt) ==
    LET outs == translate_codex_event(evt, session_title)
    IN  IF outs = << >> THEN Outcome(st, << >>, None, FALSE)
        ELSE IF outs[1].type # "StartedEvent"
        THEN Outcome(st, outs, None, FALSE)
        ELSE IF st.found_session # NoToken
        THEN Outcome(st, << >>, None, FALSE)
        ELSE IF outs[1].resume.engine # ENGINE
        THEN Outcome(st, << >>, "RuntimeError: engine", FALSE)
        ELSE IF resume_token # NoToken /\ outs[1].resume # resume_token
        THEN Outcome(st, << >>, "RuntimeError: session mismatch", FALSE)
        ELSE Outcome([st EXCEPT !.found_session = outs[1].resume], outs,
                     None, resume_token = NoToken)

\* An error record that is fatal only when it says so.
fatal_only_when_true(evt) == Get(evt, "fatal") = "True"

\* Lines 617-618: fatal = fatal_flag is True or fatal_flag is None.
fatal(evt) == Get(evt, "fatal") \in {"True", None}

\* Lines 613-678: the records the loop handles itself.
Dispatch(st, resume_token, evt) ==
    LET etype == Get(evt, "type")
        completed(ok, error, usage) ==
            Outcome([st EXCEPT !.did_emit_completed = TRUE],
                    << _completed_event(resume_for_completed(st, resume_token),
                           ok, Or(st.final_answer, ""), error, usage) >>,
                    None, FALSE)
        note(message, detail) ==
            Outcome([st EXCEPT !.note_seq = @ + 1],
                    << _note_completed(next_note_id(st), message, "False",
                                       detail) >>,
                    None, FALSE)
    IN  CASE etype = "error" ->
               IF fatal(evt)
               THEN completed(FALSE, Or(Get(evt, "message"), "codex error"),
                              None)
               ELSE note(Or(Get(evt, "message"), "codex error"),
                         [code |-> Get(evt, "code"),
                          fatal |-> Get(evt, "fatal")])
          [] etype = "turn.failed" ->
               completed(FALSE,
                         IF "error" \in DOMAIN evt
                         THEN Or(Get(evt.error, "message"), "codex turn failed")
                         ELSE "codex turn failed",
                         None)
          [] etype = "turn.rate_limited" ->
               note(IF "retry_after_ms" \in DOMAIN evt
                    THEN "rate limited (retry after " \o evt.retry_after_ms
                         \o "ms)"
                    ELSE "rate limited",
                    NoDetail)
          [] etype = "turn.started" ->
               Outcome([st EXCEPT !.turn_index = @ + 1],
                       << _action_event("started",
                              "turn_" \o ToString(st.turn_index), "turn",
                              "turn started", NoDetail, None, None, None) >>,
                       None, FALSE)
          [] etype = "turn.completed" ->
               completed(TRUE, None, Get(evt, "usage"))
          [] OTHER -> Translated(CaptureAnswer(st, evt), resume_token, evt)

\* The loop body that goes on decoding after a terminal event.
LoopStep_decodes_after_completed(st, resume_token, raw_line) ==
    IF raw_line.json = "blank" THEN Outcome(st, << >>, None, FALSE)
    ELSE IF raw_line.json = "invalid"
    THEN Outcome([st EXCEPT !.note_seq = @ + 1],
                 << _note_completed(next_note_id(st),
                        "invalid JSON from codex; ignoring line", "False",
                        [line |-> raw_line.text]) >>,
                 None, FALSE)
    ELSE IF raw_line.json = "scalar"
    THEN Outcome(st, << >>, "AttributeError", FALSE)
    ELSE Dispatch(st, resume_token, raw_line.evt)

\* The loop body with a line that fails to parse ending the translation.
LoopStep_invalid_is_fatal(st, resume_token, raw_line) ==
    IF raw_line.json = "blank" THEN Outcome(st, << >>, None, FALSE)
    ELSE IF st.did_emit_completed THEN Outcome(st, << >>, None, FALSE)
    ELSE IF raw_line.json = "invalid"
    THEN Outcome([st EXCEPT !.note_seq = @ + 1,
                            !.did_emit_completed = TRUE],
                 << _note_completed(next_note_id(st),
                        "invalid JSON from codex; ignoring line", "False",
                        [line |-> raw_line.text]) >>,
                 None, FALSE)
    ELSE IF raw_line.json = "scalar"
    THEN Outcome(st, << >>, "AttributeError", FALSE)
    ELSE Dispatch(st, resume_token, raw_line.evt)

\* Lines 592-719: the body of `async for raw_line in ...` for one line.
LoopStep(st, resume_token, raw_line) ==
    IF raw_line.json = "blank" THEN Outcome(st, << >>, None, FALSE)
    ELSE IF st.did_emit_completed THEN Outcome(st, << >>, None, FALSE)
    ELSE IF raw_line.json = "invalid"
    THEN Outcome([st EXCEPT !.note_seq = @ + 1],
                 << _note_completed(next_note_id(st),
                        "invalid JSON from codex; ignoring line", "False",
                        [line |-> raw_line.text]) >>,
                 None, FALSE)
    ELSE IF raw_line.json = "scalar"
    THEN Outcome(st, << >>, "AttributeError", FALSE)
    ELSE Dispatch(st, resume_token, raw_line.evt)

\* The stdout loop over a whole sequence of lines: the events it yields
\* until the lines end or one of them raises.
RECURSIVE LoopEvents(_, _, _)
LoopEvents(st, resume_token, raw_lines) ==
    IF raw_lines = << >> THEN << >>
    ELSE LET res == LoopStep(st, resume_token, Head(raw_lines))
         IN  IF res.exc # None THEN << >>
             ELSE res.out \o LoopEvents(res.st, resume_token, Tail(raw_lines))

\* The locals of the stdout loop after a sequence of lines.
RECURSIVE LoopState(_, _, _)
LoopState(st, resume_token, raw_lines) ==
    IF raw_lines = << >> THEN st
    ELSE LET res == LoopStep(st, resume_token, Head(raw_lines))
         IN  IF res.exc # None THEN st
             ELSE LoopState(res.st, resume_token, Tail(raw_lines))

\* ------------------------------------------------- the progress renderer
\* codex_telegram_bridge/exec_render.py.  Texts are strings; the source's
\* one-character symbols outside ASCII are written with one ASCII character
\* each, so that every length below is the length the source computes.

ELLIPSIS == "~"
STATUS_RUNNING == ">"
STATUS_DONE == "v"
HEADER_SEP == " | "
HARD_BREAK == "  \n"

MAX_CMD_LEN == 40
MAX_REASON_LEN == 80
MAX_QUERY_LEN == 60
MAX_PATH_LEN == 40
MAX_WARNING_LEN == 120
MAX_PROGRESS_CHARS == 300

\* ExecProgressRenderer.__init__'s default max_actions.
max_actions == 5

\* Truth value of an Optional[str].
Truthy(s) == s \notin {None, ""}

\* text[i:]
From(text, i) == SubSeq(text, i, Len(text))

\* sub in text
Contains(text, sub) ==
    \E i \in 1 .. (Len(text) - Len(sub) + 1) :
        SubSeq(text, i, i + Len(sub) - 1) = sub

Whitespace == {" ", "\n", "\t", "\r"}

\* text.split(): the maximal runs of characters that are not whitespace.
RECURSIVE Split(_, _, _)
Split(text, word, words) ==
    LET closed == IF word = "" THEN words ELSE Append(words, word)
    IN  IF text = "" THEN closed
        ELSE IF SubSeq(text, 1, 1) \in Whitespace
             THEN Split(From(text, 2), "", closed)
             ELSE Split(From(text, 2), word \o SubSeq(text, 1, 1), words)

\* sep.join(parts)
RECURSIVE JoinWith(_, _)
JoinWith(sep, parts) ==
    IF parts = << >> THEN ""
    ELSE IF Len(parts) = 1 THEN parts[1]
    ELSE parts[1] \o sep \o JoinWith(sep, Tail(parts))

\* text.strip()
RECURSIVE Strip(_)
Strip(text) ==
    IF text = "" THEN ""
    ELSE IF SubSeq(text, 1, 1) \in Whitespace THEN Strip(From(text, 2))
    ELSE IF SubSeq(text, Len(text), Len(text)) \in Whitespace
         THEN Strip(SubSeq(text, 1, Len(text) - 1))
    ELSE text

_one_line(text) == JoinWith(" ", Split(text, "", << >>))

_truncate(text, max_len) ==
    LET line == _one_line(text)
    IN  IF Len(line) <= max_len THEN line
        ELSE IF max_len <= Len(ELLIPSIS) THEN SubSeq(line, 1, max_len)
        ELSE SubSeq(line, 1, max_len - Len(ELLIPSIS)) \o ELLIPSIS

\* The text between two backquotes, each written as a quote.
_inline_code(text) == "'" \o text \o "'"

\* f"{n:02d}"
_format_elapsed(elapsed_s) ==
    LET TwoDigits(n) == IF n < 10 THEN "0" \o ToString(n) ELSE ToString(n)
        total == IF elapsed_s < 0 THEN 0 ELSE elapsed_s
        seconds == total % 60
        minutes == (total \div 60) % 60
        hours == (total \div 60) \div 60
    IN  IF hours # 0 THEN ToString(hours) \o "h " \o TwoDigits(minutes) \o "m"
        ELSE IF minutes # 0
             THEN ToString(minutes) \o "m " \o TwoDigits(seconds) \o "s"
        ELSE ToString(seconds) \o "s"

_format_header(elapsed_s, turn, label) ==
    IF turn # NoneInt
    THEN label \o HEADER_SEP \o _format_elapsed(elapsed_s) \o HEADER_SEP
           \o "turn " \o ToString(turn)
    ELSE label \o HEADER_SEP \o _format_elapsed(elapsed_s)

_format_reasoning(text) ==
    IF ~Truthy(text) THEN ""
    ELSE "_" \o _truncate(text, MAX_REASON_LEN) \o "_"

_format_command(command) ==
    LET short == _truncate(command, MAX_CMD_LEN)
    IN  _inline_code(IF short = "" THEN "(empty)" ELSE short)

_format_query(query) == _truncate(query, MAX_QUERY_LEN)

_format_paths(paths) ==
    JoinWith(", ", [i \in 1 .. Len(paths) |->
                       _inline_code(_truncate(paths[i], MAX_PATH_LEN))])

_format_file_change(changes) ==
    LET paths == SelectSeq([i \in 1 .. Len(changes) |->
                               Get(changes[i], "path")], Truthy)
    IN  IF paths = << >>
        THEN IF Len(changes) = 0 THEN "updated files"
             ELSE "updated " \o ToString(Len(changes)) \o " files"
        ELSE IF Len(paths) <= 3 THEN "updated " \o _format_paths(paths)
        ELSE "updated " \o ToString(Len(paths)) \o " files"

_format_tool_call(server, tool) ==
    LET name == JoinWith(".", SelectSeq(<< server, tool >>, Truthy))
    IN  IF name = "" THEN "tool" ELSE name

_is_command_log_line(line) == Contains(line, STATUS_DONE \o " ran:")

Digit == [c \in {"0", "1", "2", "3", "4", "5", "6", "7", "8", "9"} |->
             CHOOSE d \in 0 .. 9 : ToString(d) = c]

\* int() of the digits at the start of text, given the digits before them.
RECURSIVE DigitRun(_, _)
DigitRun(text, n) ==
    IF text = "" \/ SubSeq(text, 1, 1) \notin DOMAIN Digit THEN n
    ELSE DigitRun(From(text, 2), 10 * n + Digit[SubSeq(text, 1, 1)])

\* re.search(r"(?:item_)?(\d+)", item_id): the leftmost digit and the
\* digits that follow it; the fallback when item_id has no digit.
RECURSIVE _extract_numeric_id(_, _)
_extract_numeric_id(item_id, fallback) ==
    IF item_id = "" THEN fallback
    ELSE IF SubSeq(item_id, 1, 1) \in DOMAIN Digit THEN DigitRun(item_id, 0)
    ELSE _extract_numeric_id(From(item_id, 2), fallback)

_with_id(item_id, line) ==
    IF item_id # NoneInt THEN "[" \o ToString(item_id) \o "] " \o line
    ELSE "[?] " \o line

\* None of the result is the string None.
_format_item_action_line(etype, item_id, item) ==
    IF item.type = "command_execution"
    THEN LET command == _format_command(item.command)
             exit_part == IF item.exit_code # NoneInt
                          THEN " (exit " \o ToString(item.exit_code) \o ")"
                          ELSE ""
         IN  IF etype = "item.started"
             THEN _with_id(item_id,
                           STATUS_RUNNING \o " running: " \o command)
             ELSE IF etype = "item.completed"
             THEN _with_id(item_id,
                           STATUS_DONE \o " ran: " \o command \o exit_part)
             ELSE None
    ELSE IF item.type = "mcp_tool_call"
    THEN LET name == _format_tool_call(item.server, item.tool)
         IN  IF etype = "item.started"
             THEN _with_id(item_id, STATUS_RUNNING \o " tool: " \o name)
             ELSE IF etype = "item.completed"
             THEN _with_id(item_id, STATUS_DONE \o " tool: " \o name)
             ELSE None
    ELSE None

_format_item_completed_line(item_id, item) ==
    IF item.type = "web_search"
    THEN _with_id(item_id,
                  STATUS_DONE \o " searched: " \o _format_query(item.query))
    ELSE IF item.type = "file_change"
    THEN _with_id(item_id,
                  STATUS_DONE \o " " \o _format_file_change(item.changes))
    ELSE IF item.type = "error"
    THEN _with_id(item_id,
                  STATUS_DONE \o " warning: "
                    \o _truncate(item.message, MAX_WARNING_LEN))
    ELSE None

\* ExecRenderState, with the renderer's max_chars.
RenderInit ==
    [recent_actions |-> << >>, current_action |-> None,
     current_action_id |-> NoneInt, pending_reasoning |-> None,
     current_reasoning |-> None, last_turn |-> NoneInt,
     max_chars |-> MAX_PROGRESS_CHARS]

_record_item(state, item) ==
    LET numeric_id == _extract_numeric_id(item.id, NoneInt)
    IN  IF numeric_id # NoneInt THEN [state EXCEPT !.last_turn = numeric_id]
        ELSE state

\* A deque that drops the newest entry when it is full.
RecentAppend_keeps_oldest(recent_actions, line) ==
    IF Len(recent_actions) >= max_actions THEN recent_actions
    ELSE Append(recent_actions, line)

\* deque(maxlen=max_actions).append
RecentAppend(recent_actions, line) ==
    IF Len(recent_actions) >= max_actions
    THEN Append(Tail(recent_actions), line)
    ELSE Append(recent_actions, line)

\* _set_current_action that leaves a pending reasoning note pending.
_set_current_action_keeps_pending(state, item_id, line) ==
    [state EXCEPT !.current_action = line, !.current_action_id = item_id]

_set_current_action(state, item_id, line) ==
    IF state.current_action # line \/ state.current_action_id # item_id
    THEN LET set == [state EXCEPT !.current_action = line,
                                  !.current_action_id = item_id]
         IN  IF Truthy(state.pending_reasoning)
             THEN [set EXCEPT !.current_reasoning = state.pending_reasoning,
                              !.pending_reasoning = None]
             ELSE set
    ELSE state

\* The test of an Optional[int] item_id holds when it is neither None nor 0.
_complete_action(state, item_id, line) ==
    LET truthy == item_id \notin {NoneInt, 0}
        s1 == IF /\ Truthy(state.current_reasoning)
                 /\ \/ state.recent_actions = << >>
                    \/ state.recent_actions[Len(state.recent_actions)]
                         # state.current_reasoning
              THEN [state EXCEPT !.recent_actions =
                        RecentAppend(@, state.current_reasoning)]
              ELSE state
        s2 == IF Truthy(line)
              THEN [s1 EXCEPT !.recent_actions = RecentAppend(@, line)]
              ELSE s1
        s3 == IF truthy /\ s2.current_action_id = item_id
              THEN [s2 EXCEPT !.current_action = None,
                              !.current_action_id = NoneInt,
                              !.current_reasoning = None]
              ELSE s2
    IN  IF ~truthy /\ s3.current_action_id = NoneInt
        THEN [s3 EXCEPT !.current_reasoning = None]
        ELSE s3

\* The local item_id of note_event (line 261).
NotedId(state, event) ==
    _extract_numeric_id(event.item.id, _record_item(state, event.item).last_turn)

ItemEvents == {"item.started", "item.updated", "item.completed"}

\* ExecProgressRenderer.note_event: the state it leaves.
note_event(state, event) ==
    IF event.type \notin ItemEvents THEN state
    ELSE
    LET item == event.item
        recorded == _record_item(state, item)
        item_id == _extract_numeric_id(item.id, recorded.last_turn)
        action_line == _format_item_action_line(event.type, item_id, item)
        completed_line == _format_item_completed_line(item_id, item)
    IN  IF item.type = "reasoning"
        THEN LET reasoning == _format_reasoning(item.text)
                 reasoning_line == _with_id(item_id, reasoning)
             IN  IF reasoning = "" THEN recorded
                 ELSE IF /\ Truthy(recorded.current_action)
                         /\ ~Truthy(recorded.current_reasoning)
                 THEN [recorded EXCEPT !.current_reasoning = reasoning_line]
                 ELSE [recorded EXCEPT !.pending_reasoning = reasoning_line]
        ELSE IF action_line # None
        THEN IF event.type = "item.started"
             THEN _set_current_action(recorded, item_id, action_line)
             ELSE IF event.type = "item.completed"
             THEN _complete_action(recorded, item_id, action_line)
             ELSE recorded
        ELSE IF event.type = "item.completed" /\ completed_line # None
        THEN _complete_action(recorded, item_id, completed_line)
        ELSE recorded

\* ExecProgressRenderer.note_event: the bool it returns (`changed`).
note_event_changed(state, event) ==
    IF event.type \in {"thread.started", "turn.started"} THEN TRUE
    ELSE IF event.type \notin ItemEvents THEN FALSE
    ELSE
    LET item == event.item
        recorded == _record_item(state, item)
        item_id == _extract_numeric_id(item.id, recorded.last_turn)
        action_line == _format_item_action_line(event.type, item_id, item)
        completed_line == _format_item_completed_line(item_id, item)
        \* _complete_action returns True once it has appended or cleared.
        completed(line) ==
            \/ Truthy(line)
            \/ _complete_action(recorded, item_id, line) # recorded
    IN  IF item.type = "reasoning"
        THEN /\ _format_reasoning(item.text) # ""
             /\ Truthy(recorded.current_action)
             /\ ~Truthy(recorded.current_reasoning)
        ELSE IF action_line # None
        THEN IF event.type = "item.started"
             THEN \/ recorded.current_action # action_line
                  \/ recorded.current_action_id # item_id
             ELSE IF event.type = "item.completed"
             THEN completed(action_line)
             ELSE FALSE
        ELSE /\ event.type = "item.completed"
             /\ completed_line # None
             /\ completed(completed_line)

\* ExecProgressRenderer._assemble
_assemble(header, lines) ==
    IF lines = << >> THEN header
    ELSE header \o "\n\n" \o JoinWith(HARD_BREAK, lines)

\* A progress text that shows the pending reasoning note as well.
ProgressLines_shows_pending(state) ==
    state.recent_actions
      \o (IF Truthy(state.pending_reasoning)
          THEN << state.pending_reasoning >> ELSE << >>)
      \o (IF Truthy(state.current_action)
          THEN << state.current_action >> ELSE << >>)

\* The lines render_progress composes (lines 291-297).
ProgressLines(state) ==
    state.recent_actions
      \o (IF Truthy(state.current_reasoning) /\ Truthy(state.current_action)
          THEN << state.current_reasoning >> ELSE << >>)
      \o (IF Truthy(state.current_action)
          THEN << state.current_action >> ELSE << >>)

render_progress(state, elapsed_s) ==
    LET header == _format_header(elapsed_s, state.last_turn, "working")
        message == _assemble(header, ProgressLines(state))
    IN  IF Len(message) <= state.max_chars THEN message ELSE header

render_final(state, elapsed_s, answer, status) ==
    LET header == _format_header(elapsed_s, state.last_turn, status)
        lines == IF status = "done"
                 THEN SelectSeq(state.recent_actions,
                                LAMBDA line : ~_is_command_log_line(line))
                 ELSE state.recent_actions
        body == _assemble(header, lines)
        trimmed == Strip(Or(answer, ""))
    IN  IF trimmed # "" THEN body \o "\n\n" \o trimmed ELSE body

\* ------------------------------------------------------- _iter_text_lines

\* text.find(sub): the 0-based index of the first occurrence, or -1.
Find(text, sub) ==
    LET at == {i \in 1 .. (Len(text) - Len(sub) + 1) :
                  SubSeq(text, i, i + Len(sub) - 1) = sub}
    IN  IF at = {} THEN -1
        ELSE (CHOOSE i \in at : \A j \in at : i <= j) - 1

\* A split that also yields what is left of the buffer after a chunk.
RECURSIVE YieldLines_flushes_chunk(_, _)
YieldLines_flushes_chunk(buffer, yielded) ==
    LET split_at == Find(buffer, "\n")
    IN  IF split_at < 0
        THEN [buffer |-> "",
              yielded |-> IF buffer = "" THEN yielded
                          ELSE Append(yielded, buffer)]
        ELSE YieldLines_flushes_chunk(
                 From(buffer, split_at + 2),
                 Append(yielded, SubSeq(buffer, 1, split_at + 1)))

\* Lines 420-426, the inner loop: the lines cut off the front of the buffer
\* and what stays in it.
RECURSIVE YieldLines(_, _)
YieldLines(buffer, yielded) ==
    LET split_at == Find(buffer, "\n")
    IN  IF split_at < 0 THEN [buffer |-> buffer, yielded |-> yielded]
        ELSE YieldLines(From(buffer, split_at + 2),
                        Append(yielded, SubSeq(buffer, 1, split_at + 1)))

\* The generator before its first receive: the decoded text the stream
\* will deliver (stream), the part not yet received (rest), the buffer and
\* the fragments yielded so far.
TextLinesInit ==
    [stream |-> "", rest |-> "", buffer |-> "", yielded |-> << >>,
     eof |-> FALSE]

\* --------------------------------------------------------------- onboarding
\* takopi/onboarding.py.  A Python value of a config is its type and its
\* text: PyValue("int", "123") is 123 and PyValue("str", "123") is "123".

PyValue(type, value) == [type |-> type, value |-> value]

\* takopi.constants.HOME_CONFIG_PATH, a path.
HOME_CONFIG_PATH == "~/.takopi/takopi.toml"

\* SetupResult()
SetupResult ==
    [missing_codex |-> FALSE, missing_or_invalid_config |-> FALSE,
     config_path |-> None]

\* SetupResult.ok
SetupOk(result) == ~(result.missing_codex \/ result.missing_or_invalid_config)

\* config.get(key)
ConfigGet(config, key) ==
    IF key \in DOMAIN config THEN config[key] ELSE PyValue("NoneType", "None")

\* Line 47: the token is no string or is blank.
InvalidToken(token) == token.type # "str" \/ Strip(token.value) = ""

\* A test of the chat id that takes a bool for an int.
InvalidChatId_accepts_bool(chat_id_value) ==
    chat_id_value.type \notin {"int", "bool"}

\* Lines 51-55: isinstance(x, int) holds of an int and of a bool.
InvalidChatId(chat_id_value) ==
    \/ chat_id_value.type = "NoneType"
    \/ chat_id_value.type = "bool"
    \/ chat_id_value.type \notin {"int", "bool"}

\* check_setup(), given what shutil.which("codex") returns and what
\* load_telegram_config() does: raise ConfigError or return the config and
\* its path.
check_setup(which, load) ==
    LET found == [SetupResult EXCEPT !.missing_codex = (which = None)]
    IN  IF load.raises
        THEN [found EXCEPT !.missing_or_invalid_config = TRUE,
                           !.config_path = HOME_CONFIG_PATH]
        ELSE [found EXCEPT
                !.config_path = load.config_path,
                !.missing_or_invalid_config =
                    \/ InvalidToken(ConfigGet(load.config, "bot_token"))
                    \/ InvalidChatId(ConfigGet(load.config, "chat_id"))]

\* No check_setup yet.
SetupInit ==
    [which |-> None, load |-> [raises |-> TRUE], checked |-> FALSE,
     result |-> SetupResult]

\* ------------------------------------------------------------------ state

\* The invocations of CodexRunner.run on one CodexRunner.
Runs == {1, 2}

\* The session values a caller passes or a process announces.
Sessions == {"S1", "S2"}

\* A key that leaves out the session value.
KeyOf_engine_only(token) == token.engine \o ":" \o "S1"

\* _lock_for's key: f"{token.engine}:{token.value}"
KeyOf(token) == token.engine \o ":" \o token.value

Keys == {KeyOf(ResumeToken(ENGINE, s)) : s \in Sessions}

\* Identities of anyio.Lock objects; 0 is "no lock".
LockIds == 1 .. (Cardinality(Runs) + Cardinality(Keys))

\* ------------------------------------------------------ the threaded bridge
\* codex/codex_telegram_bridge/exec_bridge.py: CodexExecRunner, whose
\* run_serialized is called on the threads of a pool.

\* Worker threads of the pool.
MaxThreads == 3

Threads == 1 .. MaxThreads

\* threading.Lock objects the runner can create; 0 is "no lock".
MaxBridgeLocks == 3

BridgeLockIds == 1 .. MaxBridgeLocks

\* A thread outside run_serialized.
ThreadInit == [pc |-> "idle", session_id |-> None, lock |-> 0]

\* CodexExecRunner.__init__ (lines 51-53): an empty dict (0: no entry) and
\* a free guard; no Lock created yet.
BridgeInit ==
    [_locks |-> [s \in Sessions |-> 0], _locks_guard |-> 0,
     created |-> 0, owner |-> [l \in BridgeLockIds |-> 0],
     thread |-> [t \in Threads |-> ThreadInit]]

VARIABLES
    run,             \* per invocation: the frames of run() and _run(),
                     \* the progress renderer that follows the run and
                     \* the setup check that precedes it
    proc,            \* per invocation: the spawned process
    _session_locks,  \* CodexRunner._session_locks: key -> lock (0: no entry)
    locks,           \* the anyio.Lock objects: owner and FIFO of waiters
    bridge           \* the CodexExecRunner of the threaded bridge: its
                     \* dict of locks, its guard, and its threads

vars == << run, proc, _session_locks, locks, bridge >>

\* The variables the threaded bridge has no part in.
runner_vars == << run, proc, _session_locks, locks >>

\* pc of a run suspended at an await: the points where the event loop can
\* deliver a cancellation.  The teardown of manage_subprocess runs inside
\* CancelScope(shield=True) and is no such point.
CancelPoints ==
    {"lock_wait", "spawn", "send_stdin", "read_stdout", "session_lock_wait",
     "proc_wait"}

Ended == {"done", "raised", "cancelled"}

\* No text has been rendered since the last event.
NoRender ==
    [kind |-> "none", elapsed_s |-> 0, answer |-> None, status |-> None,
     text |-> None]

RunInit ==
    [pc |-> "idle", resume_token |-> NoToken, lock |-> 0, session_lock |-> 0,
     session_lock_acquired |-> FALSE, loop |-> LoopInit, rc |-> NoneInt,
     exc |-> None, events |-> << >>, lines |-> << >>, pending |-> << >>,
     stderr_chunks |-> << >>, drain |-> "none", prompt_left |-> 0,
     renderer |-> RenderInit, noted |-> << >>, rendered |-> NoRender,
     text_lines |-> TextLinesInit, stderr_read |-> 0, setup |-> SetupInit]

ProcInit ==
    [state |-> "none", exitcode |-> NoneInt, returncode |-> NoneInt,
     signals |-> << >>, resume |-> None, stdin_pipe |-> 0,
     stdout_pipe |-> 0, todo_out |-> 0]

Init ==
    /\ run = [r \in Runs |-> RunInit]
    /\ proc = [r \in Runs |-> ProcInit]
    /\ _session_locks = [k \in Keys |-> 0]
    /\ locks = [l \in LockIds |-> [owner |-> 0, waiters |-> << >>]]
    /\ bridge = BridgeInit

\* ------------------------------------------------------------ anyio.Lock

\* Lock.release(): the first waiter, if any, becomes the owner.
Release(lks, l) ==
    IF lks[l].waiters = << >>
    THEN [lks EXCEPT ![l].owner = 0]
    ELSE [lks EXCEPT ![l].owner = Head(lks[l].waiters),
                     ![l].waiters = Tail(lks[l].waiters)]

\* Lock.acquire() up to its first suspension: take a free lock at once,
\* else queue behind the owner.
Acquire(lks, l, r) ==
    IF lks[l].owner = 0
    THEN [lks EXCEPT ![l].owner = r]
    ELSE [lks EXCEPT ![l].waiters = Append(@, r)]

\* A cancelled Lock.acquire() that stays in the queue.
AbandonAcquire_stays_queued(lks, l, r) == lks

\* Lock.acquire() cancelled while queued: leave the queue, or give the lock
\* back when it was handed over at the same moment.
AbandonAcquire(lks, l, r) ==
    IF lks[l].owner = r
    THEN Release(lks, l)
    ELSE [lks EXCEPT ![l].waiters =
              SelectSeq(@, LAMBDA w : w # r)]

\* The locks some run still holds a strong reference to.
Referenced == {run[r].lock : r \in Runs} \cup {run[r].session_lock : r \in Runs}

\* A lock object not in use: anyio.Lock() allocates one.
FreshLock ==
    CHOOSE l \in LockIds :
        /\ l \notin Referenced
        /\ \A k \in Keys : _session_locks[k] # l
        /\ \A m \in LockIds :
               (m \notin Referenced /\ \A k \in Keys : _session_locks[k] # m)
                   => l <= m

\* _lock_for that forgets to store the lock it creates.
_lock_for_unregistered(token) ==
    [registry |-> _session_locks, lock |-> FreshLock]

\* _lock_for(token): the registry afterwards and the lock it returns.
_lock_for(token) ==
    LET key == KeyOf(token)
    IN  IF _session_locks[key] # 0
        THEN [registry |-> _session_locks, lock |-> _session_locks[key]]
        ELSE [registry |-> [_session_locks EXCEPT ![key] = FreshLock],
              lock |-> FreshLock]

\* ---------------------------------------------------- process supervisor

ExitCodes == {0, 137}

\* _terminate_process(proc): SIGTERM to the group unless an exit was seen.
_terminate_process(p) ==
    IF p.returncode # NoneInt THEN p
    ELSE [p EXCEPT !.signals = Append(@, "SIGTERM")]

\* _kill_process without the returncode guard.
_kill_process_unguarded(p) == [p EXCEPT !.signals = Append(@, "SIGKILL")]

\* _kill_process(proc): SIGKILL to the group unless an exit was seen.
_kill_process(p) ==
    IF p.returncode # NoneInt THEN p
    ELSE [p EXCEPT !.signals = Append(@, "SIGKILL")]

\* Finalize whose `finally` releases the session lock without looking at
\* session_lock_acquired.
Finalize_releases_unacquired(rn, p, lks, exc) ==
    LET lks1 == IF rn.session_lock # 0
                THEN Release(lks, rn.session_lock) ELSE lks
        lks2 == IF rn.lock # 0 THEN Release(lks1, rn.lock) ELSE lks1
    IN  [run |-> [rn EXCEPT !.pc = IF exc = None THEN "done"
                                  ELSE IF exc = "Cancelled" THEN "cancelled"
                                  ELSE "raised",
                            !.exc = exc, !.lock = 0, !.session_lock = 0],
         proc |-> p, locks |-> lks2]

\* Finalize that leaves the `async with lock` without releasing the lock.
Finalize_keeps_lock(rn, p, lks, exc) ==
    [run |-> [rn EXCEPT !.pc = IF exc = None THEN "done"
                              ELSE IF exc = "Cancelled" THEN "cancelled"
                              ELSE "raised",
                        !.exc = exc, !.lock = 0, !.session_lock = 0],
     proc |-> p, locks |-> lks]

\* The run is over: _run's `finally` releases the session lock it took, the
\* `async with lock` of run() releases the resume lock, the frames and
\* their references to the locks go away, and `exc` (None for a normal
\* return) reaches the caller.
Finalize(rn, p, lks, exc) ==
    LET lks1 == IF rn.session_lock # 0 /\ rn.session_lock_acquired
                THEN Release(lks, rn.session_lock) ELSE lks
        lks2 == IF rn.lock # 0 THEN Release(lks1, rn.lock) ELSE lks1
    IN  [run |-> [rn EXCEPT !.pc = IF exc = None THEN "done"
                                  ELSE IF exc = "Cancelled" THEN "cancelled"
                                  ELSE "raised",
                            !.exc = exc, !.lock = 0, !.session_lock = 0],
         proc |-> p, locks |-> lks2]

\* manage_subprocess without CancelScope(shield=True): a cancelled run sends
\* SIGTERM and its wait is cancelled at once.
LeaveScope_unshielded(rn, p, lks, exc) ==
    IF p.returncode # NoneInt
    THEN Finalize(rn, p, lks, exc)
    ELSE IF exc = "Cancelled"
    THEN Finalize(rn, _terminate_process(p), lks, exc)
    ELSE [run |-> [rn EXCEPT !.pc = "teardown_wait", !.exc = exc],
          proc |-> _terminate_process(p), locks |-> lks]

\* manage_subprocess's `finally`: nothing to do when the exit was seen,
\* else SIGTERM and the wait of the grace window, shielded.
LeaveScope(rn, p, lks, exc) ==
    IF p.returncode # NoneInt
    THEN Finalize(rn, p, lks, exc)
    ELSE [run |-> [rn EXCEPT !.pc = "teardown_wait", !.exc = exc],
          proc |-> _terminate_process(p), locks |-> lks]

\* Abort of a task group that leaves its child task running.
Abort_keeps_drain(rn, p, lks, exc) == LeaveScope(rn, p, lks, exc)

\* Abort with every exception, a cancellation included, turned into a
\* failing CompletedEvent.
Abort_emits_completed(rn, p, lks, exc) ==
    LeaveScope([rn EXCEPT
                  !.drain = IF @ = "running" THEN "cancelled" ELSE @,
                  !.events = Append(@,
                      _completed_event(
                          resume_for_completed(rn.loop, rn.resume_token),
                          FALSE, Or(rn.loop.final_answer, ""), exc, None))],
               p, lks, exc)

\* An exception leaves the task group: the stderr drain task is cancelled
\* and awaited, then the exception leaves manage_subprocess.
Abort(rn, p, lks, exc) ==
    LeaveScope([rn EXCEPT !.drain = IF @ = "running" THEN "cancelled" ELSE @],
               p, lks, exc)

\* Assign the three variables an operator above computed for run r.
Commit(r, res) ==
    /\ run' = [run EXCEPT ![r] = res.run]
    /\ proc' = [proc EXCEPT ![r] = res.proc]
    /\ locks' = res.locks

\* --------------------------------------------------------------- actions

\* The caller passes one of these to run().
CallerTokens ==
    {NoToken, ResumeToken("claude", "S1")}
        \cup {ResumeToken(ENGINE, s) : s \in Sessions}

\* run() without its engine test: a token of another engine is passed on
\* to _run without a lock.
StartRun_without_engine_test(r, tok) ==
    /\ run[r].pc = "idle"
    /\ IF tok = NoToken \/ tok.engine # ENGINE
       THEN /\ run' = [run EXCEPT ![r].pc = "spawn",
                                  ![r].resume_token = tok]
            /\ UNCHANGED << proc, _session_locks, locks, bridge >>
       ELSE LET lf == _lock_for(tok)
            IN  /\ _session_locks' = lf.registry
                /\ locks' = Acquire(locks, lf.lock, r)
                /\ run' = [run EXCEPT
                       ![r].resume_token = tok,
                       ![r].lock = lf.lock,
                       ![r].pc = IF locks[lf.lock].owner = 0
                                 THEN "spawn" ELSE "lock_wait"]
                /\ UNCHANGED << proc, bridge >>

\* CodexRunner.run up to its first suspension (lines 522-537).
StartRun(r, tok) ==
    /\ run[r].pc = "idle"
    /\ IF tok # NoToken /\ tok.engine # ENGINE
       THEN /\ run' = [run EXCEPT ![r].pc = "raised",
                                  ![r].exc = "RuntimeError: engine",
                                  ![r].resume_token = tok]
            /\ UNCHANGED << proc, _session_locks, locks, bridge >>
       ELSE IF tok = NoToken
       THEN /\ run' = [run EXCEPT ![r].pc = "spawn"]
            /\ UNCHANGED << proc, _session_locks, locks, bridge >>
       ELSE LET lf == _lock_for(tok)
            IN  /\ _session_locks' = lf.registry
                /\ locks' = Acquire(locks, lf.lock, r)
                /\ run' = [run EXCEPT
                       ![r].resume_token = tok,
                       ![r].lock = lf.lock,
                       ![r].pc = IF locks[lf.lock].owner = 0
                                 THEN "spawn" ELSE "lock_wait"]
                /\ UNCHANGED << proc, bridge >>

\* `async with lock` of run(): the lock was handed to this waiter.
LockGranted(r) ==
    /\ run[r].pc = "lock_wait"
    /\ locks[run[r].lock].owner = r
    /\ run' = [run EXCEPT ![r].pc = "spawn"]
    /\ UNCHANGED << proc, _session_locks, locks, bridge >>

\* anyio.open_process (line 483): the process exists, or OSError.
Spawn(r, ok) ==
    /\ run[r].pc = "spawn"
    /\ IF ok
       THEN /\ run' = [run EXCEPT ![r].pc = "send_stdin"]
            /\ proc' = [proc EXCEPT ![r].state = "running",
                                    ![r].resume = run[r].resume_token.value]
            /\ UNCHANGED locks
       ELSE Commit(r, Finalize(run[r], proc[r], locks, "OSError"))
    /\ UNCHANGED << _session_locks, bridge >>

\* Lines 587-590: start the stderr drain task, write the prompt to stdin
\* (what is left of it fits the pipe) and close it.
SendPrompt(r) ==
    /\ run[r].pc = "send_stdin"
    /\ run[r].prompt_left = 0
    /\ run' = [run EXCEPT ![r].pc = "read_stdout", ![r].drain = "running"]
    /\ UNCHANGED << proc, _session_locks, locks, bridge >>

\* A stdout line that json.loads turns into the dict `evt`.
Obj(evt) == [json |-> "object", evt |-> evt]

\* The stdout lines a process writes: blank, not JSON, JSON that is no
\* object, and protocol records.
Lines ==
    {[json |-> "blank"],
     [json |-> "invalid", text |-> "oops"],
     [json |-> "scalar"],
     Obj([type |-> "mystery"]),
     Obj([type |-> "thread.started", thread_id |-> "S1"]),
     Obj([type |-> "thread.started", thread_id |-> "S2"]),
     Obj([type |-> "turn.completed", usage |-> "u1"]),
     Obj([type |-> "turn.failed", error |-> [message |-> "boom"]]),
     Obj([type |-> "error", message |-> "slow", fatal |-> "False"]),
     Obj([type |-> "item.completed",
          item |-> [type |-> "agent_message", id |-> "m1", text |-> "a1"]])}

\* The lines of the processes of interleaved runs.
LockLines ==
    {[json |-> "scalar"],
     Obj([type |-> "thread.started", thread_id |-> "S1"]),
     Obj([type |-> "turn.completed", usage |-> "u1"])}

\* A deque without maxlen.
DequeAppend_unbounded(chunks, line) == Append(chunks, line)

\* deque(maxlen=STDERR_TAIL_LINES).append(line)
DequeAppend(chunks, line) ==
    IF Len(chunks) >= STDERR_TAIL_LINES
    THEN Append(Tail(chunks), line)
    ELSE Append(chunks, line)

\* One pass of the stdout loop (lines 592-719) on the line the process
\* wrote, up to the next suspension: the next read, a yield, the wait for
\* the lock of the announced session, or the exception leaving the scope.
ReadLine(r, raw_line, max) ==
    /\ run[r].pc = "read_stdout"
    /\ proc[r].state = "running"
    /\ Len(run[r].lines) < max
    /\ LET res == LoopStep(run[r].loop, run[r].resume_token, raw_line)
           rn == [run[r] EXCEPT !.lines = Append(@, raw_line)]
           lf == _lock_for(res.st.found_session)
       IN  IF res.exc # None
           THEN /\ Commit(r, Abort(rn, proc[r], locks, res.exc))
                /\ UNCHANGED << _session_locks, bridge >>
           ELSE IF res.acquire
           THEN /\ _session_locks' = lf.registry
                /\ locks' = Acquire(locks, lf.lock, r)
                /\ run' = [run EXCEPT ![r] =
                       IF locks[lf.lock].owner = 0
                       THEN [rn EXCEPT !.session_lock = lf.lock,
                                       !.session_lock_acquired = TRUE,
                                       !.loop = res.st,
                                       !.events = @ \o res.out,
                                       !.pc = "yield_loop"]
                       ELSE [rn EXCEPT !.session_lock = lf.lock,
                                       !.pending = res.out,
                                       !.pc = "session_lock_wait"]]
                /\ UNCHANGED << proc, bridge >>
           ELSE /\ run' = [run EXCEPT ![r] =
                       [rn EXCEPT !.loop = res.st,
                                  !.events = @ \o res.out,
                                  !.pc = IF res.out = << >> THEN "read_stdout"
                                         ELSE "yield_loop"]]
                /\ UNCHANGED << proc, _session_locks, locks, bridge >>

\* Lines 713-717: the lock of the announced session was handed over; the
\* session is recorded and the StartedEvent yielded.
SessionLockGranted(r) ==
    /\ run[r].pc = "session_lock_wait"
    /\ locks[run[r].session_lock].owner = r
    /\ run' = [run EXCEPT
           ![r].session_lock_acquired = TRUE,
           ![r].loop.found_session = run[r].pending[1].resume,
           ![r].events = @ \o run[r].pending,
           ![r].pending = << >>,
           ![r].pc = "yield_loop"]
    /\ UNCHANGED << proc, _session_locks, locks, bridge >>

\* The caller asks for the next event after one yielded in the loop.
ResumeLoop(r) ==
    /\ run[r].pc = "yield_loop"
    /\ run' = [run EXCEPT ![r].pc = "read_stdout"]
    /\ UNCHANGED << proc, _session_locks, locks, bridge >>

\* The stdout loop reads end of stream (the process closed stdout by
\* exiting); line 720 then awaits the exit.
ReadEOF(r) ==
    /\ run[r].pc = "read_stdout"
    /\ proc[r].state = "exited"
    /\ proc[r].stdout_pipe = 0
    /\ run' = [run EXCEPT ![r].pc = "proc_wait"]
    /\ UNCHANGED << proc, _session_locks, locks, bridge >>

\* The f-string of line 727, part by part.
ExecFailedParts(rc) == << "codex exec failed (rc=", ToString(rc), ")." >>

\* The message of the synthesized failure (line 727).
ExecFailed(rc) ==
    ExecFailedParts(rc)[1] \o ExecFailedParts(rc)[2] \o ExecFailedParts(rc)[3]

\* The closing event without the answer captured in the loop.
FinalEvent_drops_answer(st, resume_token) ==
    IF st.found_session = NoToken
    THEN _completed_event(resume_token, FALSE, "",
             "codex exec finished but no session_id/thread_id was captured",
             None)
    ELSE _completed_event(st.found_session, TRUE, "", None, None)

\* The closing event with every clean exit taken for a success.
FinalEvent_always_ok(st, resume_token) ==
    _completed_event(resume_for_completed(st, resume_token), TRUE,
                     Or(st.final_answer, ""), None, None)

\* Lines 743-761: the closing event after exit code 0 when the loop emitted
\* no terminal event.
FinalEvent(st, resume_token) ==
    IF st.found_session = NoToken
    THEN _completed_event(resume_token, FALSE, Or(st.final_answer, ""),
             "codex exec finished but no session_id/thread_id was captured",
             None)
    ELSE _completed_event(st.found_session, TRUE, Or(st.final_answer, ""),
                          None, None)

\* Lines 720-761: proc.wait() returns, the task group ends with the drain
\* task at end of stream, and the run returns or yields its closing event.
ProcWait(r) ==
    /\ run[r].pc = "proc_wait"
    /\ proc[r].state = "exited"
    /\ LET p == [proc[r] EXCEPT !.returncode = proc[r].exitcode]
           rn == [run[r] EXCEPT !.rc = p.returncode, !.drain = "done"]
           st == rn.loop
       IN  IF st.did_emit_completed
           THEN Commit(r, LeaveScope(rn, p, locks, None))
           ELSE /\ proc' = [proc EXCEPT ![r] = p]
                /\ UNCHANGED locks
                /\ run' = [run EXCEPT ![r] =
                       IF rn.rc # 0
                       THEN [rn EXCEPT
                               !.loop.note_seq = @ + 1,
                               !.events = Append(@,
                                   _note_completed(next_note_id(st),
                                       ExecFailed(rn.rc), "False",
                                       [stderr_tail |-> rn.stderr_chunks])),
                               !.pc = "yield_note"]
                       ELSE [rn EXCEPT
                               !.events = Append(@,
                                   FinalEvent(st, rn.resume_token)),
                               !.pc = "yield_final"]]
    /\ UNCHANGED << _session_locks, bridge >>

\* Lines 734-741: after the failure note, the failing CompletedEvent.
ResumeNote(r) ==
    /\ run[r].pc = "yield_note"
    /\ run' = [run EXCEPT
           ![r].events = Append(@,
               _completed_event(
                   resume_for_completed(run[r].loop, run[r].resume_token),
                   FALSE, Or(run[r].loop.final_answer, ""),
                   ExecFailed(run[r].rc), None)),
           ![r].pc = "yield_final"]
    /\ UNCHANGED << proc, _session_locks, locks, bridge >>

\* The `return` after the closing CompletedEvent: the scopes are left.
ResumeFinal(r) ==
    /\ run[r].pc = "yield_final"
    /\ Commit(r, LeaveScope(run[r], proc[r], locks, None))
    /\ UNCHANGED << _session_locks, bridge >>

\* The caller's task is cancelled while the run waits at an await: the
\* CancelledError is raised there and leaves the scopes like any exception.
Cancel(r) ==
    /\ run[r].pc \in CancelPoints
    /\ CASE run[r].pc = "lock_wait" ->
              /\ locks' = AbandonAcquire(locks, run[r].lock, r)
              /\ run' = [run EXCEPT ![r].pc = "cancelled",
                                    ![r].exc = "Cancelled", ![r].lock = 0]
              /\ UNCHANGED proc
         [] run[r].pc = "spawn" ->
              Commit(r, Finalize(run[r], proc[r], locks, "Cancelled"))
         [] run[r].pc = "session_lock_wait" ->
              Commit(r, Abort([run[r] EXCEPT !.pending = << >>], proc[r],
                              AbandonAcquire(locks, run[r].session_lock, r),
                              "Cancelled"))
         [] OTHER ->
              Commit(r, Abort(run[r], proc[r], locks, "Cancelled"))
    /\ UNCHANGED << _session_locks, bridge >>

\* _wait_for_process (line 490): proc.wait() returned inside the grace
\* window, timed_out is False and the scope is left.
TerminatedInTime(r) ==
    /\ run[r].pc = "teardown_wait"
    /\ proc[r].state = "exited"
    /\ Commit(r, Finalize(run[r],
                          [proc[r] EXCEPT !.returncode = proc[r].exitcode],
                          locks, run[r].exc))
    /\ UNCHANGED << _session_locks, bridge >>

\* Lines 490-493: the grace window ran out (scope.cancel_called), so
\* _kill_process, then the unconditional proc.wait().
GraceTimeout(r) ==
    /\ run[r].pc = "teardown_wait"
    /\ run' = [run EXCEPT ![r].pc = "teardown_kill_wait"]
    /\ proc' = [proc EXCEPT ![r] = _kill_process(proc[r])]
    /\ UNCHANGED << _session_locks, locks, bridge >>

\* Line 493: proc.wait() after the kill returned.
Killed(r) ==
    /\ run[r].pc = "teardown_kill_wait"
    /\ proc[r].state = "exited"
    /\ Commit(r, Finalize(run[r],
                          [proc[r] EXCEPT !.returncode = proc[r].exitcode],
                          locks, run[r].exc))
    /\ UNCHANGED << _session_locks, bridge >>

\* The process exits, by itself or on a signal; its pipes close.
ProcExit(r, code) ==
    /\ proc[r].state = "running"
    /\ proc' = [proc EXCEPT ![r].state = "exited", ![r].exitcode = code]
    /\ UNCHANGED << run, _session_locks, locks, bridge >>

\* The event loop sees the exit: proc.returncode is set from then on.
Reap(r) ==
    /\ proc[r].state = "exited"
    /\ proc[r].returncode = NoneInt
    /\ proc' = [proc EXCEPT ![r].returncode = proc[r].exitcode]
    /\ UNCHANGED << run, _session_locks, locks, bridge >>

\* The i-th line a process writes to stderr.
StderrLine(i) == "e" \o ToString(i) \o "\n"

\* _drain_stderr (lines 429-435): the process writes a stderr line, one of
\* at most max, and the drain task appends it to the bounded deque.
DrainLine(r, max) ==
    /\ proc[r].state = "running"
    /\ run[r].drain = "running"
    /\ run[r].stderr_read < max
    /\ run' = [run EXCEPT
                 ![r].stderr_chunks =
                     DequeAppend(@, StderrLine(run[r].stderr_read + 1)),
                 ![r].stderr_read = @ + 1]
    /\ UNCHANGED << proc, _session_locks, locks, bridge >>

DrainStderr(r) == DrainLine(r, MaxStderr)

\* A registry that drops entries whose lock is still referenced.
Reclaim_referenced(k) ==
    /\ _session_locks[k] # 0
    /\ _session_locks' = [_session_locks EXCEPT ![k] = 0]
    /\ UNCHANGED << run, proc, locks, bridge >>

\* WeakValueDictionary: an entry whose lock no run references is dropped.
Reclaim(k) ==
    /\ _session_locks[k] # 0
    /\ _session_locks[k] \notin Referenced
    /\ _session_locks' = [_session_locks EXCEPT ![k] = 0]
    /\ UNCHANGED << run, proc, locks, bridge >>

\* ---------------------------------------------------------- specifications

\* One run of a CodexRunner, with every kind of stdout line.
Next ==
    \/ \E tok \in CallerTokens : StartRun(1, tok)
    \/ \E ok \in BOOLEAN : Spawn(1, ok)
    \/ SendPrompt(1)
    \/ \E raw_line \in Lines : ReadLine(1, raw_line, MaxLines)
    \/ ResumeLoop(1)
    \/ ReadEOF(1)
    \/ ProcWait(1)
    \/ ResumeNote(1)
    \/ ResumeFinal(1)
    \/ Cancel(1)
    \/ TerminatedInTime(1)
    \/ GraceTimeout(1)
    \/ Killed(1)
    \/ \E code \in ExitCodes : ProcExit(1, code)
    \/ Reap(1)
    \/ DrainStderr(1)
    \/ \E k \in Keys : Reclaim(k)

Spec == Init /\ [][Next]_vars

\* The tokens of this engine callers pass, and none.
LockTokens == {NoToken} \cup {ResumeToken(ENGINE, s) : s \in Sessions}

\* The runs of one CodexRunner interleaved, contending for session locks.
\* The runs are interchangeable: run 1 stands for the one started first.
NextLocks ==
    \E r \in Runs :
        \/ \E tok \in CallerTokens :
               (r = 1 \/ run[1].pc # "idle") /\ StartRun(r, tok)
        \/ LockGranted(r)
        \/ \E ok \in BOOLEAN : Spawn(r, ok)
        \/ SendPrompt(r)
        \/ \E raw_line \in LockLines : ReadLine(r, raw_line, MaxLockLines)
        \/ SessionLockGranted(r)
        \/ ResumeLoop(r)
        \/ ReadEOF(r)
        \/ ProcWait(r)
        \/ ResumeNote(r)
        \/ ResumeFinal(r)
        \/ Cancel(r)
        \/ TerminatedInTime(r)
        \/ GraceTimeout(r)
        \/ Killed(r)
        \/ \E code \in ExitCodes : ProcExit(r, code)
        \/ Reap(r)
        \/ \E k \in Keys : Reclaim(k)

SpecLocks == Init /\ [][NextLocks]_vars

\* The stdout lines of the translation runs: every record type the loop
\* handles itself, items in each phase, and lines that are no records.
TranslateLines ==
    {[json |-> "blank"],
     [json |-> "invalid", text |-> "oops"],
     [json |-> "scalar"],
     Obj([type |-> "thread.started", thread_id |-> "S1"]),
     Obj([type |-> "thread.started", thread_id |-> "S2"]),
     Obj([type |-> "turn.started"]),
     Obj([type |-> "turn.completed", usage |-> "u1"]),
     Obj([type |-> "turn.failed", error |-> [message |-> "boom"]]),
     Obj([type |-> "error", message |-> "fatal1"]),
     Obj([type |-> "error", message |-> "fatal2", fatal |-> "True"]),
     Obj([type |-> "error", message |-> "slow", fatal |-> "False"]),
     Obj([type |-> "error", fatal |-> "False"]),
     Obj([type |-> "turn.rate_limited"]),
     Obj([type |-> "turn.rate_limited", retry_after_ms |-> "500"]),
     Obj([type |-> "item.completed",
          item |-> [type |-> "agent_message", id |-> "m1", text |-> "a1"]]),
     Obj([type |-> "item.completed",
          item |-> [type |-> "assistant_message", id |-> "m2",
                    text |-> "a2"]]),
     Obj([type |-> "item.started",
          item |-> [type |-> "command_execution", id |-> "c1",
                    command |-> "ls"]]),
     Obj([type |-> "item.updated",
          item |-> [type |-> "command_execution", id |-> "c1",
                    command |-> "ls"]]),
     Obj([type |-> "item.completed",
          item |-> [type |-> "command_execution", id |-> "c1",
                    command |-> "ls", exit_code |-> "0",
                    status |-> "completed"]])}

\* One run translating the stdout of a process that exits with code 0 and,
\* when signalled, within the grace window.
NextTranslate ==
    \/ \E tok \in LockTokens : StartRun(1, tok)
    \/ Spawn(1, TRUE)
    \/ SendPrompt(1)
    \/ \E raw_line \in TranslateLines : ReadLine(1, raw_line, MaxTranslateLines)
    \/ ResumeLoop(1)
    \/ ReadEOF(1)
    \/ ProcWait(1)
    \/ ResumeFinal(1)
    \/ TerminatedInTime(1)
    \/ ProcExit(1, 0)

SpecTranslate == Init /\ [][NextTranslate]_vars

\* ------------------------------------------------- the items of a run

\* Stdout lines of a run that translates item records (SpecItems).
MaxItemLines == 2

\* One run translating item records: every phase of an item of every type
\* of the kind table, of an error item, of an agent message under both of
\* its names and of an unknown type, an item that names its type in
\* item_type, and an item without an id.  The process exits with code 0.
NextItems ==
    LET ItemTypes ==
            {"command_execution", "mcp_tool_call", "tool_call", "web_search",
             "file_change", "reasoning", "todo_list", "error",
             "agent_message", "assistant_message", "mystery"}
        ItemLines ==
            {Obj([type |-> etype,
                  item |-> [type |-> t, id |-> "i1", text |-> "t1"]]) :
                 etype \in ItemEvents, t \in ItemTypes}
              \cup {Obj([type |-> etype,
                         item |-> [item_type |-> "tool_call", id |-> "i2",
                                   name |-> "grep"]]) :
                        etype \in ItemEvents}
              \cup {Obj([type |-> etype,
                         item |-> [type |-> "web_search", query |-> "q"]]) :
                        etype \in ItemEvents}
    IN  \/ StartRun(1, NoToken)
        \/ Spawn(1, TRUE)
        \/ SendPrompt(1)
        \/ \E raw_line \in ItemLines : ReadLine(1, raw_line, MaxItemLines)
        \/ ResumeLoop(1)
        \/ ReadEOF(1)
        \/ ProcWait(1)
        \/ ResumeFinal(1)
        \/ ProcExit(1, 0)

SpecItems == Init /\ [][NextItems]_vars

\* The process has written its stdout, read stdin to its end and may exit.
ProcDone(r) ==
    /\ run[r].pc \notin {"idle", "lock_wait", "spawn", "send_stdin"}
    /\ proc[r].todo_out = 0
    /\ proc[r].stdin_pipe = 0

\* Line 589, `await proc_stdin.send(prompt.encode())`: one more piece of the
\* prompt goes into the stdin pipe while it has room; the stderr drain task
\* started at line 588 runs from the first suspension on.
WritePrompt(r) ==
    /\ run[r].pc = "send_stdin"
    /\ run[r].prompt_left > 0
    /\ proc[r].state = "running"
    /\ proc[r].stdin_pipe < PipeCapacity
    /\ run' = [run EXCEPT ![r].prompt_left = @ - 1, ![r].drain = "running"]
    /\ proc' = [proc EXCEPT ![r].stdin_pipe = @ + 1]
    /\ UNCHANGED << _session_locks, locks, bridge >>

\* Line 414, `chunk = await text_stream.receive()` in the stdout loop: a
\* piece of output leaves the stdout pipe.
ReceiveStdout(r) ==
    /\ run[r].pc = "read_stdout"
    /\ proc[r].stdout_pipe > 0
    /\ proc' = [proc EXCEPT ![r].stdout_pipe = @ - 1]
    /\ UNCHANGED << run, _session_locks, locks, bridge >>

\* The process writes a piece of output into the stdout pipe while the pipe
\* has room.
ProcWriteStdout(r) ==
    /\ proc[r].state = "running"
    /\ proc[r].todo_out > 0
    /\ proc[r].stdout_pipe < PipeCapacity
    /\ proc' = [proc EXCEPT ![r].todo_out = @ - 1, ![r].stdout_pipe = @ + 1]
    /\ UNCHANGED << run, _session_locks, locks, bridge >>

\* The process, done with that output, reads a piece of the prompt from the
\* stdin pipe.
ProcReadStdin(r) ==
    /\ proc[r].state = "running"
    /\ proc[r].todo_out = 0
    /\ proc[r].stdin_pipe > 0
    /\ proc' = [proc EXCEPT ![r].stdin_pipe = @ - 1]
    /\ UNCHANGED << run, _session_locks, locks, bridge >>

\* A run with a prompt of up to MaxPrompt pieces, whose process writes up to
\* MaxOut pieces of output before it reads its stdin.
InitPipes ==
    /\ \E n \in 0 .. MaxPrompt :
           run = [r \in Runs |->
                     [RunInit EXCEPT !.prompt_left = IF r = 1 THEN n ELSE 0]]
    /\ \E m \in 0 .. MaxOut :
           proc = [r \in Runs |->
                      [ProcInit EXCEPT !.todo_out = IF r = 1 THEN m ELSE 0]]
    /\ _session_locks = [k \in Keys |-> 0]
    /\ locks = [l \in LockIds |-> [owner |-> 0, waiters |-> << >>]]
    /\ bridge = BridgeInit

\* One run and its process exchanging the prompt and the output through
\* bounded pipes; the process exits when it is done or signalled.
NextPipes ==
    \/ \E tok \in LockTokens : StartRun(1, tok)
    \/ Spawn(1, TRUE)
    \/ WritePrompt(1)
    \/ SendPrompt(1)
    \/ ReceiveStdout(1)
    \/ ProcWriteStdout(1)
    \/ ProcReadStdin(1)
    \/ ReadEOF(1)
    \/ ProcWait(1)
    \/ ResumeNote(1)
    \/ ResumeFinal(1)
    \/ Cancel(1)
    \/ TerminatedInTime(1)
    \/ GraceTimeout(1)
    \/ Killed(1)
    \/ \E code \in ExitCodes :
           (proc[1].signals # << >> \/ ProcDone(1)) /\ ProcExit(1, code)

SpecPipes == InitPipes /\ [][NextPipes]_vars

\* ------------------------------------------------- the renderer of a run

\* Events noted by the renderer of one run.
MaxRenderEvents == 3

Command(id, command, exit_code) ==
    [id |-> id, type |-> "command_execution", command |-> command,
     exit_code |-> exit_code]

\* The records of a turn: two commands with numbered ids, one of them 0 and
\* one with a command line longer than MAX_CMD_LEN, a command whose id has
\* no digit, a reasoning item, a warning whose message quotes a command
\* log line, a web search and a file change.
RenderEvents ==
    {[type |-> "turn.started"],
     [type |-> "item.started", item |-> Command("item_0", "ls", NoneInt)],
     [type |-> "item.completed", item |-> Command("item_0", "ls", 0)],
     [type |-> "item.started",
      item |-> Command("item_1",
                       "python -m  pytest tests/test_exec_render.py -q",
                       NoneInt)],
     [type |-> "item.updated",
      item |-> Command("item_1",
                       "python -m  pytest tests/test_exec_render.py -q",
                       NoneInt)],
     [type |-> "item.completed",
      item |-> Command("item_1",
                       "python -m  pytest tests/test_exec_render.py -q", 2)],
     [type |-> "item.started", item |-> Command("abc", "pwd", NoneInt)],
     [type |-> "item.completed", item |-> Command("abc", "pwd", 0)],
     [type |-> "item.completed",
      item |-> [id |-> "item_2", type |-> "reasoning",
                text |-> "plan the work"]],
     [type |-> "item.completed",
      item |-> [id |-> "item_3", type |-> "error",
                message |-> "log said v ran: ls twice"]],
     [type |-> "item.completed",
      item |-> [id |-> "item_4", type |-> "web_search",
                query |-> "tla+ strings"]],
     [type |-> "item.completed",
      item |-> [id |-> "item_5", type |-> "file_change",
                changes |-> << [path |-> "a.py", kind |-> "update"] >>]]}

\* changed = renderer.note_event(event), one of at most max events, with
\* the event, the local item_id and the bool returned kept in run[r].noted;
\* the text rendered before the event is out of date.
NoteUpTo(r, event, max) ==
    /\ Len(run[r].noted) < max
    /\ run' = [run EXCEPT
                 ![r].renderer = note_event(@, event),
                 ![r].noted =
                     Append(@, [event |-> event,
                                item_id |->
                                    IF event.type \in ItemEvents
                                    THEN NotedId(run[r].renderer, event)
                                    ELSE NoneInt,
                                changed |->
                                    note_event_changed(run[r].renderer,
                                                       event)]),
                 ![r].rendered = NoRender]
    /\ UNCHANGED << proc, _session_locks, locks, bridge >>

NoteEvent(r, event) == NoteUpTo(r, event, MaxRenderEvents)

\* renderer.render_progress(elapsed_s)
RenderProgress(r, elapsed_s) ==
    /\ run' = [run EXCEPT ![r].rendered =
                 [kind |-> "progress", elapsed_s |-> elapsed_s,
                  answer |-> None, status |-> "working",
                  text |-> render_progress(run[r].renderer, elapsed_s)]]
    /\ UNCHANGED << proc, _session_locks, locks, bridge >>

\* renderer.render_final(elapsed_s, answer, status)
RenderFinal(r, elapsed_s, answer, status) ==
    /\ run' = [run EXCEPT ![r].rendered =
                 [kind |-> "final", elapsed_s |-> elapsed_s,
                  answer |-> answer, status |-> status,
                  text |-> render_final(run[r].renderer, elapsed_s, answer,
                                        status)]]
    /\ UNCHANGED << proc, _session_locks, locks, bridge >>

\* ExecProgressRenderer(max_chars=m) for run 1: m below the length of any
\* header, with room for a header and one line, or the default.
InitRender ==
    /\ \E m \in {10, 60, MAX_PROGRESS_CHARS} :
           run = [r \in Runs |->
                     [RunInit EXCEPT !.renderer.max_chars =
                          IF r = 1 THEN m ELSE MAX_PROGRESS_CHARS]]
    /\ proc = [r \in Runs |-> ProcInit]
    /\ _session_locks = [k \in Keys |-> 0]
    /\ locks = [l \in LockIds |-> [owner |-> 0, waiters |-> << >>]]
    /\ bridge = BridgeInit

\* The renderer of one run: events are noted one by one and a progress
\* text or the final text is rendered between them.
NextRender ==
    \/ \E event \in RenderEvents : NoteEvent(1, event)
    \/ \E elapsed_s \in {5, 3700} : RenderProgress(1, elapsed_s)
    \/ \E elapsed_s \in {5, 3700}, answer \in {"", " \n", " done\n"},
          status \in {"done", "error"} :
           RenderFinal(1, elapsed_s, answer, status)

SpecRender == InitRender /\ [][NextRender]_vars

\* ------------------------------------------ the rolling history of a run

\* Events noted by a renderer whose history fills up.
MaxHistoryEvents == 6

\* A command that starts and completes, two reasoning items and a web
\* search that completes while the command may be the current action.
HistoryEvents ==
    {[type |-> "item.started", item |-> Command("item_1", "make", NoneInt)],
     [type |-> "item.completed", item |-> Command("item_1", "make", 0)],
     [type |-> "item.completed",
      item |-> [id |-> "item_2", type |-> "reasoning",
                text |-> "plan the work"]],
     [type |-> "item.completed",
      item |-> [id |-> "item_6", type |-> "reasoning",
                text |-> "think again"]],
     [type |-> "item.completed",
      item |-> [id |-> "item_4", type |-> "web_search",
                query |-> "tla+ strings"]]}

\* The renderer of one run over a longer turn, with the progress text
\* rendered between the events.
NextHistory ==
    \/ \E event \in HistoryEvents : NoteUpTo(1, event, MaxHistoryEvents)
    \/ RenderProgress(1, 5)

SpecHistory == InitRender /\ [][NextHistory]_vars

\* ------------------------------------------- the line splitter of a run

\* Characters of a decoded stream, each a letter or the newline.
MaxStreamLen == 4

RECURSIVE Texts(_)
Texts(n) ==
    IF n = 0 THEN {""}
    ELSE Texts(n - 1) \cup {t \o c : t \in Texts(n - 1), c \in {"a", "b", "\n"}}

\* Lines 414 and 419-426: text_stream.receive() returns the next n
\* characters of the stream; they are added to the buffer and the whole
\* lines in it are yielded.
ReceiveChunk(r, n) ==
    LET tl == run[r].text_lines
        chunk == SubSeq(tl.rest, 1, n)
        split == YieldLines(tl.buffer \o chunk, tl.yielded)
    IN  /\ ~tl.eof
        /\ n \in 1 .. Len(tl.rest)
        /\ run' = [run EXCEPT ![r].text_lines =
                      [tl EXCEPT !.rest = From(tl.rest, n + 1),
                                 !.buffer = split.buffer,
                                 !.yielded = split.yielded]]
        /\ UNCHANGED << proc, _session_locks, locks, bridge >>

\* Lines 415-418: the stream is at its end; a buffer that is not empty is
\* yielded.
EndOfStream(r) ==
    LET tl == run[r].text_lines
    IN  /\ ~tl.eof
        /\ tl.rest = ""
        /\ run' = [run EXCEPT ![r].text_lines =
                      [tl EXCEPT !.eof = TRUE,
                                 !.buffer = "",
                                 !.yielded = IF tl.buffer # ""
                                             THEN Append(@, tl.buffer)
                                             ELSE @]]
        /\ UNCHANGED << proc, _session_locks, locks, bridge >>

\* _iter_text_lines over a stream of up to MaxStreamLen characters.
InitTextLines ==
    /\ \E text \in Texts(MaxStreamLen) :
           run = [r \in Runs |->
                     [RunInit EXCEPT !.text_lines.stream =
                                         IF r = 1 THEN text ELSE "",
                                     !.text_lines.rest =
                                         IF r = 1 THEN text ELSE ""]]
    /\ proc = [r \in Runs |-> ProcInit]
    /\ _session_locks = [k \in Keys |-> 0]
    /\ locks = [l \in LockIds |-> [owner |-> 0, waiters |-> << >>]]
    /\ bridge = BridgeInit

\* The stream arrives in chunks of any sizes.
NextTextLines ==
    \/ \E n \in 1 .. MaxStreamLen + 1 : ReceiveChunk(1, n)
    \/ EndOfStream(1)

SpecTextLines == InitTextLines /\ [][NextTextLines]_vars

\* ------------------------------------------------ the stderr tail of a run

\* Stderr lines of one process, more than the tail keeps.
MaxStderrTail == 202

\* One run whose process writes stderr lines and a line of stdout, then
\* exits with any code and, when signalled, within the grace window.
NextStderr ==
    \/ \E tok \in LockTokens : StartRun(1, tok)
    \/ Spawn(1, TRUE)
    \/ SendPrompt(1)
    \/ DrainLine(1, MaxStderrTail)
    \/ \E raw_line \in LockLines : ReadLine(1, raw_line, MaxLockLines)
    \/ ResumeLoop(1)
    \/ ReadEOF(1)
    \/ ProcWait(1)
    \/ ResumeNote(1)
    \/ ResumeFinal(1)
    \/ TerminatedInTime(1)
    \/ \E code \in ExitCodes : ProcExit(1, code)

SpecStderr == Init /\ [][NextStderr]_vars

\* ---------------------------------------------------- the check of a setup

\* What load_telegram_config() does: raise ConfigError, or return a path
\* and a config in which each of the two keys is present or not.  The
\* values of bot_token are strings, a blank one and an empty one among
\* them, and a number; those of chat_id are integers, a bool, a string and
\* a float.
Loads ==
    LET BotTokens ==
            {PyValue("str", "token"), PyValue("str", " token\n"),
             PyValue("str", ""), PyValue("str", "  "), PyValue("int", "42")}
        ChatIds ==
            {PyValue("int", "123"), PyValue("int", "-100123"),
             PyValue("int", "0"), PyValue("bool", "True"),
             PyValue("str", "123"), PyValue("float", "1.5")}
        Configs ==
            {[bot_token |-> t, chat_id |-> c] : t \in BotTokens, c \in ChatIds}
              \cup {[bot_token |-> t] : t \in BotTokens}
              \cup {[chat_id |-> c] : c \in ChatIds}
              \cup {[codex_cmd |-> PyValue("str", "codex")]}
    IN  {[raises |-> TRUE]}
          \cup {[raises |-> FALSE, config |-> c,
                 config_path |-> "takopi.toml"] : c \in Configs}

\* result = check_setup()
CheckSetup(r) ==
    /\ ~run[r].setup.checked
    /\ run' = [run EXCEPT
                 ![r].setup.checked = TRUE,
                 ![r].setup.result =
                     check_setup(run[r].setup.which, run[r].setup.load)]
    /\ UNCHANGED << proc, _session_locks, locks, bridge >>

\* A machine with or without the executable (what shutil.which returns), and
\* a config file or none.
InitSetup ==
    /\ \E w \in {None, "/usr/bin/codex"}, l \in Loads :
           run = [r \in Runs |->
                     [RunInit EXCEPT !.setup.which = IF r = 1 THEN w ELSE None,
                                     !.setup.load =
                                         IF r = 1 THEN l
                                         ELSE [raises |-> TRUE]]]
    /\ proc = [r \in Runs |-> ProcInit]
    /\ _session_locks = [k \in Keys |-> 0]
    /\ locks = [l \in LockIds |-> [owner |-> 0, waiters |-> << >>]]
    /\ bridge = BridgeInit

NextSetup == CheckSetup(1)

SpecSetup == InitSetup /\ [][NextSetup]_vars

\* ------------------------------------------ the threads of the old bridge

\* run_serialized(prompt, session_id) is entered on thread t (lines
\* 141-143): without a session id run is called at once, with one _lock_for
\* is called and waits for the guard.
RunSerialized(t, session_id) ==
    /\ bridge.thread[t].pc = "idle"
    /\ bridge' = [bridge EXCEPT
                    !.thread[t] =
                        [pc |-> IF session_id = None THEN "run"
                                ELSE "guard_wait",
                         session_id |-> session_id, lock |-> 0]]
    /\ UNCHANGED runner_vars

\* A guard that is never seen held.
GuardFree_never_held(b) == TRUE

\* _locks_guard can be acquired.
GuardFree(b) == b._locks_guard = 0

\* Line 56, `with self._locks_guard:` is entered.
EnterGuard(t) ==
    /\ bridge.thread[t].pc = "guard_wait"
    /\ GuardFree(bridge)
    /\ bridge' = [bridge EXCEPT !._locks_guard = t,
                                !.thread[t].pc = "check"]
    /\ UNCHANGED runner_vars

\* Line 57, `if session_id not in self._locks`.
CheckLock(t) ==
    /\ bridge.thread[t].pc = "check"
    /\ bridge' = [bridge EXCEPT
                    !.thread[t].pc =
                        IF bridge._locks[bridge.thread[t].session_id] = 0
                        THEN "create" ELSE "return"]
    /\ UNCHANGED runner_vars

\* Line 58, `self._locks[session_id] = threading.Lock()`: a new Lock.
CreateLock(t) ==
    /\ bridge.thread[t].pc = "create"
    /\ bridge.created < MaxBridgeLocks
    /\ bridge' = [bridge EXCEPT
                    !.created = @ + 1,
                    !._locks[bridge.thread[t].session_id] =
                        bridge.created + 1,
                    !.thread[t].pc = "return"]
    /\ UNCHANGED runner_vars

\* Line 59, `return self._locks[session_id]`, which leaves the guard, and
\* line 143: the lock is the caller's; line 144 waits for it.
ReturnLock(t) ==
    /\ bridge.thread[t].pc = "return"
    /\ bridge' = [bridge EXCEPT
                    !._locks_guard = 0,
                    !.thread[t].lock =
                        bridge._locks[bridge.thread[t].session_id],
                    !.thread[t].pc = "lock_wait"]
    /\ UNCHANGED runner_vars

\* Line 144, `with lock:` is entered and line 145 calls run.
AcquireLock(t) ==
    /\ bridge.thread[t].pc = "lock_wait"
    /\ bridge.owner[bridge.thread[t].lock] = 0
    /\ bridge' = [bridge EXCEPT !.owner[bridge.thread[t].lock] = t,
                                !.thread[t].pc = "run"]
    /\ UNCHANGED runner_vars

\* run returns or raises; `with lock:` is left when it was entered.
RunReturns(t) ==
    /\ bridge.thread[t].pc = "run"
    /\ bridge' = [bridge EXCEPT
                    !.owner = [l \in BridgeLockIds |->
                                  IF l = bridge.thread[t].lock THEN 0
                                  ELSE @[l]],
                    !.thread[t] = ThreadInit]
    /\ UNCHANGED runner_vars

\* Messages for sessions and messages that start a session, handled on the
\* threads of the pool in any interleaving.
NextBridge ==
    \E t \in Threads :
        \/ \E session_id \in Sessions \cup {None} :
               RunSerialized(t, session_id)
        \/ EnterGuard(t)
        \/ CheckLock(t)
        \/ CreateLock(t)
        \/ ReturnLock(t)
        \/ AcquireLock(t)
        \/ RunReturns(t)

SpecBridge == Init /\ [][NextBridge]_vars

\* ------------------------------------------------------------------ claims

CompletedEvents(r) ==
    SelectSeq(run[r].events, LAMBDA e : e.type = "CompletedEvent")

StartedEvents(r) ==
    SelectSeq(run[r].events, LAMBDA e : e.type = "StartedEvent")

\* The run is inside `async with manage_subprocess(...)`.
InScope(r) == proc[r].state # "none" /\ run[r].pc \notin Ended

TeardownPcs == {"teardown_wait", "teardown_kill_wait"}

\* C1: every run that spawned its process and ended without being
\* cancelled has emitted exactly one CompletedEvent, as its last event,
\* and no run ever emits an event after a CompletedEvent.
C1_ExactlyOneCompletedEventLast ==
    \A r \in Runs :
        /\ \A i \in 1 .. Len(run[r].events) - 1 :
               run[r].events[i].type # "CompletedEvent"
        /\ (run[r].pc \in {"done", "raised"} /\ proc[r].state # "none")
               => /\ run[r].events # << >>
                  /\ run[r].events[Len(run[r].events)].type = "CompletedEvent"

\* C2: of two runs resuming the same session, one is inside its subprocess
\* scope only while the other has not yet got the session lock or has
\* ended (with its CompletedEvent when it returned, its process gone and
\* the lock no longer its own); two processes spawned with `resume S` for
\* the same S are never alive together.
C2_ResumeSerialized ==
    \A r1 \in Runs : \A r2 \in Runs \ {r1} :
        /\ (proc[r1].resume # None /\ proc[r1].resume = proc[r2].resume)
               => ~(proc[r1].state = "running" /\ proc[r2].state = "running")
        /\ (/\ run[r1].resume_token # NoToken
            /\ run[r1].resume_token = run[r2].resume_token
            /\ InScope(r2))
               => /\ run[r1].pc \in {"lock_wait"} \cup Ended
                  /\ run[r1].pc \in Ended
                         => /\ proc[r1].state # "running"
                            /\ \A l \in LockIds : locks[l].owner # r1
                  /\ run[r1].pc = "done" => CompletedEvents(r1) # << >>

\* C2 witness: a run waits for the session lock while the run that holds
\* it is tearing its process down.
C2_Witness ==
    \E r1 \in Runs : \E r2 \in Runs \ {r1} :
        /\ run[r1].resume_token # NoToken
        /\ run[r1].resume_token = run[r2].resume_token
        /\ run[r1].pc = "teardown_wait"
        /\ proc[r1].state = "running"
        /\ run[r2].pc = "lock_wait"

\* C3: from the delivery of its StartedEvent until it ends, a non-resuming
\* run owns the registered lock of the session it announced, and no run
\* resuming that session is inside its subprocess scope or about to spawn.
C3_NewSessionLockedBeforeStarted ==
    \A r1 \in Runs :
        (/\ run[r1].resume_token = NoToken
         /\ StartedEvents(r1) # << >>
         /\ run[r1].pc \notin Ended)
            => LET tok == StartedEvents(r1)[1].resume
                   l == _session_locks[KeyOf(tok)]
               IN  /\ l # 0
                   /\ locks[l].owner = r1
                   /\ \A r2 \in Runs \ {r1} :
                          run[r2].resume_token = tok
                              => /\ run[r2].pc \in {"lock_wait"} \cup Ended
                                 /\ proc[r2].state # "running"

\* C3 witness: the StartedEvent of a non-resuming run is out, the run has
\* not ended, and a second run resuming the announced session waits.
C3_Witness ==
    \E r1 \in Runs : \E r2 \in Runs \ {r1} :
        /\ run[r1].resume_token = NoToken
        /\ StartedEvents(r1) # << >>
        /\ run[r1].pc = "yield_loop"
        /\ run[r2].resume_token = StartedEvents(r1)[1].resume
        /\ run[r2].pc = "lock_wait"

\* C4 (state part): the signals sent are SIGTERM, then at most one SIGKILL;
\* the teardown is entered by sending SIGTERM; when the scope has been left
\* the process has exited and its exit has been seen.
C4_TeardownState ==
    \A r \in Runs :
        /\ proc[r].signals \in
               {<< >>, << "SIGTERM" >>, << "SIGTERM", "SIGKILL" >>}
        /\ run[r].pc \in TeardownPcs => proc[r].signals # << >>
        /\ (run[r].pc \in Ended /\ proc[r].state # "none")
               => proc[r].state = "exited" /\ proc[r].returncode # NoneInt

\* C4 (step part): a signal is sent only while no exit has been seen
\* (proc.returncode is None); SIGTERM is sent on leaving the scope, where
\* the wait of the grace window starts; SIGKILL is sent only when that
\* window ran out, and the wait for the exit follows.
C4_TeardownStep ==
    \A r \in Runs :
        proc'[r].signals # proc[r].signals
            => /\ proc[r].returncode = NoneInt
               /\ proc'[r].signals[Len(proc'[r].signals)] = "SIGTERM"
                      => /\ run[r].pc \notin TeardownPcs
                         /\ run'[r].pc = "teardown_wait"
               /\ proc'[r].signals[Len(proc'[r].signals)] = "SIGKILL"
                      => /\ run[r].pc = "teardown_wait"
                         /\ run'[r].pc = "teardown_kill_wait"

\* C4: leaving manage_subprocess with no exit seen runs SIGTERM, the grace
\* window, SIGKILL only if the window ran out with no exit seen, and the
\* wait for the exit; afterwards the process has exited; no signal is sent
\* once the exit has been seen.
C4_Teardown == [] C4_TeardownState /\ [][C4_TeardownStep]_vars

\* C4 witness: a scope was left through SIGTERM and SIGKILL.
C4_Witness ==
    \E r \in Runs :
        /\ run[r].pc \in Ended
        /\ proc[r].signals = << "SIGTERM", "SIGKILL" >>
        /\ proc[r].state = "exited"

\* C5: when the cancellation of a run that had spawned its process reaches
\* the caller, the process has exited and its exit has been awaited; until
\* then the cancelled run stays in the teardown.
C5_CancelNeverAbandons ==
    \A r \in Runs :
        (run[r].exc = "Cancelled" /\ proc[r].state # "none")
            => /\ run[r].pc \in TeardownPcs \cup {"cancelled"}
               /\ run[r].pc = "cancelled"
                      => /\ proc[r].state = "exited"
                         /\ proc[r].returncode # NoneInt
               /\ run[r].pc = "teardown_kill_wait"
                      => proc[r].signals[1] = "SIGTERM"

\* C5 witness: a cancelled run whose process needed SIGTERM and SIGKILL.
C5_Witness ==
    \E r \in Runs :
        /\ run[r].pc = "cancelled"
        /\ proc[r].signals = << "SIGTERM", "SIGKILL" >>

FailedRecordRead(r) ==
    LET terminal == SelectSeq(run[r].lines, LAMBDA l :
                        /\ l.json = "object"
                        /\ \/ Get(l.evt, "type") \in
                                  {"turn.completed", "turn.failed"}
                           \/ /\ Get(l.evt, "type") = "error"
                              /\ Get(l.evt, "fatal") \in {"True", None})
    IN  /\ terminal # << >>
        /\ terminal[1].evt.type \in {"turn.failed", "error"}

\* The fatal conditions of a run.
FatalCondition(r) ==
    \/ run[r].exc \in {"RuntimeError: session mismatch", "OSError"}
    \/ /\ run[r].pc = "done"
       /\ \/ FailedRecordRead(r)
          \/ ~run[r].loop.did_emit_completed /\ run[r].rc # 0
          \/ /\ ~run[r].loop.did_emit_completed
             /\ run[r].loop.found_session = NoToken

\* C7: a run that ended on a fatal condition returned normally and emitted
\* exactly one CompletedEvent, with ok=false.
C7_FatalEndsInFailedCompleted ==
    \A r \in Runs :
        (run[r].pc \in {"done", "raised"} /\ FatalCondition(r))
            => /\ run[r].pc = "done"
               /\ Len(CompletedEvents(r)) = 1
               /\ ~CompletedEvents(r)[1].ok

\* The record types the translator knows.
KnownTypes ==
    {"thread.started", "turn.started", "turn.completed", "turn.failed",
     "turn.rate_limited", "error", "item.started", "item.updated",
     "item.completed"}

\* Blank, not JSON, JSON that is no object, or an object of unknown type.
Unrecognised(raw_line) ==
    \/ raw_line.json \in {"blank", "invalid", "scalar"}
    \/ raw_line.json = "object" /\ Get(raw_line.evt, "type") \notin KnownTypes

\* C8: no exception is raised by reading a line that is blank, not JSON,
\* not an object or of unknown type.
C8_NoLineAbortsRun ==
    \A r \in Runs :
        (run[r].lines # << >>
            /\ Unrecognised(run[r].lines[Len(run[r].lines)]))
            => run[r].exc \in {None, "Cancelled"}

RemoveAt(seq, i) == SubSeq(seq, 1, i - 1) \o SubSeq(seq, i + 1, Len(seq))

NoteId(n) == "codex.note." \o ToString(n)

NoteNumbers == 1 .. (MaxLines + 2)

IsNote(e) ==
    e.type = "ActionEvent" /\ \E n \in NoteNumbers : e.action.id = NoteId(n)

\* The event with the sequence number of its note id one higher.
Bump(e) ==
    IF IsNote(e)
    THEN [e EXCEPT !.action.id =
             NoteId(1 + CHOOSE n \in NoteNumbers : e.action.id = NoteId(n))]
    ELSE e

\* Line i of run r failed to parse and was read before any terminal record.
MalformedAt(r, i) ==
    /\ run[r].lines[i].json = "invalid"
    /\ ~LoopState(LoopInit, run[r].resume_token,
                  SubSeq(run[r].lines, 1, i - 1)).did_emit_completed

\* Where the event of line i stands among the events of run r.
EventIndex(r, i) ==
    1 + Len(LoopEvents(LoopInit, run[r].resume_token,
                       SubSeq(run[r].lines, 1, i - 1)))

IsWarningNote(e) ==
    /\ e.type = "ActionEvent"
    /\ e.phase = "completed"
    /\ e.action.kind = "warning"
    /\ e.ok = "False"
    /\ e.level = "warning"

\* C9 (as claimed): the events of a run whose line i failed to parse are a
\* warning note for line i and, around it, exactly the events the run
\* yields for the same lines without line i.
C9_MalformedLineChangesNothingElse ==
    \A r \in Runs :
        run[r].pc \in {"read_stdout", "yield_loop"}
            => \A i \in 1 .. Len(run[r].lines) :
                   MalformedAt(r, i)
                       => /\ IsWarningNote(run[r].events[EventIndex(r, i)])
                          /\ RemoveAt(run[r].events, EventIndex(r, i)) =
                                 LoopEvents(LoopInit, run[r].resume_token,
                                            RemoveAt(run[r].lines, i))

\* C9 (amended): as C9, except that every warning note yielded after the
\* malformed line carries a sequence number one higher in its id.
C9_MalformedLineShiftsLaterNoteIds ==
    \A r \in Runs :
        run[r].pc \in {"read_stdout", "yield_loop"}
            => \A i \in 1 .. Len(run[r].lines) :
                   MalformedAt(r, i)
                       => LET p == EventIndex(r, i)
                              without ==
                                  LoopEvents(LoopInit, run[r].resume_token,
                                             RemoveAt(run[r].lines, i))
                          IN  /\ IsWarningNote(run[r].events[p])
                              /\ Len(run[r].events) = Len(without) + 1
                              /\ \A j \in 1 .. Len(without) :
                                     IF j < p
                                     THEN run[r].events[j] = without[j]
                                     ELSE run[r].events[j + 1] =
                                              Bump(without[j])

\* C9 witness: a malformed line between two lines that yield events, the
\* later one a warning note.
C9_Witness ==
    \E r \in Runs :
        /\ run[r].pc = "yield_loop"
        /\ Len(run[r].lines) = 3
        /\ run[r].lines[1].json = "object"
        /\ MalformedAt(r, 2)
        /\ Len(run[r].events) = 3
        /\ IsNote(run[r].events[3])

\* "".join(stderr_chunks)
RECURSIVE Join(_)
Join(chunks) ==
    IF chunks = << >> THEN "" ELSE Head(chunks) \o Join(Tail(chunks))

\* The texts a formatted message starts or ends with, part-wise.
Affixes(parts) ==
    {Join(SubSeq(parts, i, j)) : i \in 1 .. Len(parts) + 1,
                                  j \in 0 .. Len(parts)}

\* The run read stdout to its end, the exit code is nonzero and no
\* terminal event was emitted in the loop.
FailedExit(r) ==
    /\ run[r].pc \in {"yield_final", "done"}
    /\ run[r].rc \notin {NoneInt, 0}
    /\ ~run[r].loop.did_emit_completed

\* C10 (as claimed): the run ends with a CompletedEvent with ok=false whose
\* error text contains the captured stderr tail.
C10_ErrorContainsStderrTail ==
    \A r \in Runs :
        FailedExit(r)
            => LET e == run[r].events[Len(run[r].events)]
               IN  /\ e.type = "CompletedEvent"
                   /\ ~e.ok
                   /\ \E pre \in Affixes(ExecFailedParts(run[r].rc)) :
                      \E post \in Affixes(ExecFailedParts(run[r].rc)) :
                          e.error = pre \o Join(run[r].stderr_chunks) \o post

\* Where the stderr tail goes: the run ends with a warning note whose detail
\* carries the captured stderr tail, then a CompletedEvent with ok=false
\* whose error is the message "codex exec failed (rc=<code>)." of that note.
FailureNoteCarriesStderrTail ==
    \A r \in Runs :
        FailedExit(r)
            => LET n == Len(run[r].events)
               IN  /\ n >= 2
                   /\ run[r].events[n].type = "CompletedEvent"
                   /\ ~run[r].events[n].ok
                   /\ run[r].events[n].error = ExecFailed(run[r].rc)
                   /\ Len(CompletedEvents(r)) = 1
                   /\ IsWarningNote(run[r].events[n - 1])
                   /\ run[r].events[n - 1].message = ExecFailed(run[r].rc)
                   /\ run[r].events[n - 1].action.detail =
                          [stderr_tail |-> run[r].stderr_chunks]

\* A run that returned after exit code 137 with stderr output and no
\* terminal record.
FailedExitWithStderr ==
    \E r \in Runs :
        /\ run[r].pc = "done"
        /\ run[r].rc = 137
        /\ run[r].stderr_chunks # << >>
        /\ ~run[r].loop.did_emit_completed

\* The run holds or waits for no lock.
NoLockOf(r) ==
    \A l \in LockIds :
        /\ locks[l].owner # r
        /\ \A i \in 1 .. Len(locks[l].waiters) : locks[l].waiters[i] # r

\* C11: once the process of a resuming run has announced a session other
\* than the expected one, the run emits nothing for that record or after it
\* and no StartedEvent at all, only tears the process down; when it has
\* ended the process has exited after at most SIGTERM then SIGKILL and the
\* run holds no lock.
C11_MismatchFailsImmediately ==
    \A r \in Runs :
        run[r].exc = "RuntimeError: session mismatch"
            => /\ StartedEvents(r) = << >>
               /\ run[r].events =
                      LoopEvents(LoopInit, run[r].resume_token, run[r].lines)
               /\ run[r].pc \in TeardownPcs \cup {"raised"}
               /\ proc[r].signals \in
                      {<< >>, << "SIGTERM" >>, << "SIGTERM", "SIGKILL" >>}
               /\ run[r].pc = "raised"
                      => /\ proc[r].state = "exited"
                         /\ proc[r].returncode = proc[r].exitcode
                         /\ NoLockOf(r)

\* C11 witness: a run resuming S1 whose process announced S2 after another
\* event, ended with the process signalled.
C11_Witness ==
    \E r \in Runs :
        /\ run[r].pc = "raised"
        /\ run[r].exc = "RuntimeError: session mismatch"
        /\ run[r].resume_token = ResumeToken(ENGINE, "S1")
        /\ run[r].events # << >>
        /\ proc[r].signals # << >>

\* The run read stdout to its end after exit code 0, emitted no terminal
\* event in the loop and never saw a session.
CleanExitWithoutSession(r) ==
    /\ run[r].pc \in {"yield_final", "done"}
    /\ run[r].rc = 0
    /\ ~run[r].loop.did_emit_completed
    /\ StartedEvents(r) = << >>

\* C12: a run whose stdout ended with exit code 0, with no terminal event
\* and no session seen, ends with its only CompletedEvent, which has
\* ok=false and the error that no session_id/thread_id was captured.
C12_NoSessionCaptured ==
    \A r \in Runs :
        CleanExitWithoutSession(r)
            => LET e == run[r].events[Len(run[r].events)]
               IN  /\ run[r].events # << >>
                   /\ e.type = "CompletedEvent"
                   /\ ~e.ok
                   /\ e.error =
                          "codex exec finished but no session_id/thread_id was captured"
                   /\ Len(CompletedEvents(r)) = 1

\* C12 witness: such a run that returned, after events of other records.
C12_Witness ==
    \E r \in Runs :
        /\ CleanExitWithoutSession(r)
        /\ run[r].pc = "done"
        /\ Len(run[r].events) > 1

\* A turn.failed record or an error record that is fatal.
IsFailureRecord(raw_line) ==
    /\ raw_line.json = "object"
    /\ \/ Get(raw_line.evt, "type") = "turn.failed"
       \/ /\ Get(raw_line.evt, "type") = "error"
          /\ Get(raw_line.evt, "fatal") \in {"True", None}

IsTurnCompleted(raw_line) ==
    raw_line.json = "object" /\ Get(raw_line.evt, "type") = "turn.completed"

\* Line i of run r is the first terminal record the run read.
FirstTerminalAt(r, i) ==
    /\ IsFailureRecord(run[r].lines[i]) \/ IsTurnCompleted(run[r].lines[i])
    /\ \A j \in 1 .. i - 1 :
           /\ ~IsFailureRecord(run[r].lines[j])
           /\ ~IsTurnCompleted(run[r].lines[j])

\* The message a failure record carries.
RecordMessage(evt) ==
    IF evt.type = "error" THEN evt.message ELSE evt.error.message

\* The text of the last completed agent_message/assistant_message item
\* among the lines, "" when there is none.
RECURSIVE LastAnswer(_)
LastAnswer(raw_lines) ==
    IF raw_lines = << >> THEN ""
    ELSE LET l == raw_lines[Len(raw_lines)]
         IN  IF /\ l.json = "object"
                /\ Get(l.evt, "type") = "item.completed"
                /\ "item" \in DOMAIN l.evt
                /\ Get(l.evt.item, "type") \in
                       {"agent_message", "assistant_message"}
                /\ "text" \in DOMAIN l.evt.item
             THEN l.evt.item.text
             ELSE LastAnswer(SubSeq(raw_lines, 1, Len(raw_lines) - 1))

\* C13: when the first terminal record a run reads is a turn.failed or a
\* fatal error record, the event of that record is CompletedEvent(ok=false,
\* error=the record's message, answer=the answer captured so far) and it
\* stays the last event; the lines read after it raise nothing and leave
\* the answer, the session and the note counter as they were.
C13_FailureRecordEndsTranslation ==
    \A r \in Runs :
        \A i \in 1 .. Len(run[r].lines) :
            (FirstTerminalAt(r, i) /\ IsFailureRecord(run[r].lines[i]))
                => LET before == SubSeq(run[r].lines, 1, i - 1)
                       st == LoopState(LoopInit, run[r].resume_token, before)
                       p == EventIndex(r, i)
                   IN  /\ Len(run[r].events) = p
                       /\ run[r].events[p].type = "CompletedEvent"
                       /\ ~run[r].events[p].ok
                       /\ run[r].events[p].error =
                              RecordMessage(run[r].lines[i].evt)
                       /\ run[r].events[p].answer = LastAnswer(before)
                       /\ run[r].exc = None
                       /\ run[r].loop.final_answer = st.final_answer
                       /\ run[r].loop.found_session = st.found_session
                       /\ run[r].loop.note_seq = st.note_seq

\* C13 witness: an answer, a failure record, then a line that is not JSON.
C13_Witness ==
    \E r \in Runs :
        /\ Len(run[r].lines) = 3
        /\ LastAnswer(SubSeq(run[r].lines, 1, 1)) = "a1"
        /\ IsFailureRecord(run[r].lines[2])
        /\ run[r].lines[3].json = "invalid"
        /\ run[r].pc = "done"

\* C14: when the first terminal record a run reads is a turn.completed, the
\* event of that record is CompletedEvent(ok=true) with the record's usage
\* and, as answer, the text of the last agent_message/assistant_message
\* item completed before it ("" when there is none).
C14_TurnCompletedCarriesLastAnswer ==
    \A r \in Runs :
        \A i \in 1 .. Len(run[r].lines) :
            (FirstTerminalAt(r, i) /\ IsTurnCompleted(run[r].lines[i]))
                => LET e == run[r].events[EventIndex(r, i)]
                   IN  /\ Len(run[r].events) >= EventIndex(r, i)
                       /\ e.type = "CompletedEvent"
                       /\ e.ok
                       /\ e.error = None
                       /\ e.usage = run[r].lines[i].evt.usage
                       /\ e.answer =
                              LastAnswer(SubSeq(run[r].lines, 1, i - 1))

\* C14 witness: two different answers, then turn.completed.
C14_Witness ==
    \E r \in Runs :
        /\ Len(run[r].lines) = 3
        /\ LastAnswer(SubSeq(run[r].lines, 1, 1)) = "a1"
        /\ LastAnswer(SubSeq(run[r].lines, 1, 2)) = "a2"
        /\ IsTurnCompleted(run[r].lines[3])
        /\ Len(CompletedEvents(r)) = 1

\* A thread.started record carrying a thread_id.
IsThreadStarted(raw_line) ==
    /\ raw_line.json = "object"
    /\ Get(raw_line.evt, "type") = "thread.started"
    /\ Get(raw_line.evt, "thread_id") \notin {None, ""}

\* Line i of run r is the first thread.started record the run read.
FirstThreadStartedAt(r, i) ==
    /\ IsThreadStarted(run[r].lines[i])
    /\ \A j \in 1 .. i - 1 : ~IsThreadStarted(run[r].lines[j])

\* C15 (as claimed): a run has at most one StartedEvent, and once it has
\* read a thread.started record it has exactly one, of the session of the
\* first such record.
C15_FirstThreadStartedYieldsStarted ==
    \A r \in Runs :
        /\ Len(StartedEvents(r)) <= 1
        /\ \A i \in 1 .. Len(run[r].lines) :
               FirstThreadStartedAt(r, i)
                   => /\ Len(StartedEvents(r)) = 1
                      /\ StartedEvents(r)[1].resume =
                             ResumeToken(ENGINE, run[r].lines[i].evt.thread_id)

\* C15 (amended): a run has at most one StartedEvent.  The first
\* thread.started record yields it, with the record's session, when it is
\* read before any terminal record and the run is not resuming another
\* session; otherwise the run has no StartedEvent at all.
C15_AtMostOneStartedEvent ==
    \A r \in Runs :
        /\ Len(StartedEvents(r)) <= 1
        /\ \A i \in 1 .. Len(run[r].lines) :
               FirstThreadStartedAt(r, i)
                   => LET session ==
                              ResumeToken(ENGINE,
                                          run[r].lines[i].evt.thread_id)
                      IN  IF /\ \A j \in 1 .. i - 1 : ~FirstTerminalAt(r, j)
                             /\ run[r].resume_token \in {NoToken, session}
                          THEN /\ Len(StartedEvents(r)) = 1
                               /\ run[r].events[EventIndex(r, i)] =
                                      _started_event(session, session_title)
                          ELSE StartedEvents(r) = << >>

\* C15 witness: thread.started S1, then thread.started S2, then another
\* event, with the one StartedEvent of S1.
C15_Witness ==
    \E r \in Runs :
        /\ Len(run[r].lines) = 3
        /\ IsThreadStarted(run[r].lines[1])
        /\ IsThreadStarted(run[r].lines[2])
        /\ run[r].lines[1] # run[r].lines[2]
        /\ Len(run[r].events) = 2
        /\ Len(StartedEvents(r)) = 1

\* The events of the loop are those of the lines read, in their order.
EventsInReadOrder(r) ==
    LET le == LoopEvents(LoopInit, run[r].resume_token, run[r].lines)
    IN  /\ Len(run[r].events) >= Len(le)
        /\ SubSeq(run[r].events, 1, Len(le)) = le

\* C16: no ActionEvent and no CompletedEvent of a run precedes its
\* StartedEvent, and the events are in the order of the lines read.
C16_StartedBeforeActions ==
    \A r \in Runs :
        /\ EventsInReadOrder(r)
        /\ \A i \in 1 .. Len(run[r].events) :
           \A j \in 1 .. Len(run[r].events) :
               (i < j /\ run[r].events[j].type = "StartedEvent")
                   => run[r].events[i].type \notin
                          {"ActionEvent", "CompletedEvent"}

\* In every state the loop's events are in the order of the lines read.
AlwaysInReadOrder == \A r \in Runs : EventsInReadOrder(r)

\* C17: among the ActionEvents of a run with one action id, none follows a
\* completed one and a started one follows none.
C17_PhasesFormPrefix ==
    \A r \in Runs :
        \A i \in 1 .. Len(run[r].events) :
        \A j \in 1 .. Len(run[r].events) :
            (/\ i < j
             /\ run[r].events[i].type = "ActionEvent"
             /\ run[r].events[j].type = "ActionEvent"
             /\ run[r].events[i].action.id = run[r].events[j].action.id)
                => /\ run[r].events[i].phase # "completed"
                   /\ run[r].events[j].phase # "started"

\* C18: a run that is in the write of the prompt to stdin is never blocked
\* for good: while its process runs, the run can write or finish writing,
\* or the process can write output or read the prompt.
C18_NeverBlockedInStdinWrite ==
    \A r \in Runs :
        (run[r].pc = "send_stdin" /\ proc[r].state = "running")
            => \/ ENABLED WritePrompt(r)
               \/ ENABLED SendPrompt(r)
               \/ ENABLED ProcWriteStdout(r)
               \/ ENABLED ProcReadStdin(r)

\* The session for which run o holds or wants lock l.
LockSession(o, l) ==
    IF run[o].lock = l THEN run[o].resume_token
    ELSE IF run[o].session_lock = l
    THEN IF run[o].pending # << >> THEN run[o].pending[1].resume
         ELSE run[o].loop.found_session
    ELSE NoToken

\* C19: a non-resuming run holds and awaits no lock before its process is
\* spawned, and a run that waits for a lock waits for a run that holds it
\* for the same session.
C19_NoContentionAcrossSessions ==
    \A r \in Runs :
        /\ (run[r].resume_token = NoToken /\ proc[r].state = "none")
               => /\ NoLockOf(r)
                  /\ run[r].lock = 0
                  /\ run[r].pc # "lock_wait"
        /\ run[r].pc = "lock_wait"
               => LET o == locks[run[r].lock].owner
                  IN  /\ o \in Runs
                      /\ o # r => LockSession(o, run[r].lock) =
                                      run[r].resume_token
        /\ run[r].pc = "session_lock_wait"
               => LET o == locks[run[r].session_lock].owner
                  IN  /\ o \in Runs
                      /\ o # r => LockSession(o, run[r].session_lock) =
                                      run[r].pending[1].resume

\* C19 witness: a run resuming S2 and a first-time run whose process
\* announced S1, both with their process running and their lock held.
C19_Witness ==
    \E r1 \in Runs : \E r2 \in Runs :
        /\ run[r1].resume_token = ResumeToken(ENGINE, "S2")
        /\ proc[r1].state = "running"
        /\ locks[run[r1].lock].owner = r1
        /\ run[r2].resume_token = NoToken
        /\ run[r2].loop.found_session = ResumeToken(ENGINE, "S1")
        /\ proc[r2].state = "running"
        /\ run[r2].session_lock_acquired

\* The token of a registry key.
TokenOf(k) ==
    CHOOSE t \in {ResumeToken(ENGINE, s) : s \in Sessions} : KeyOf(t) = k

\* Run r holds lock l or is queued for it.
HoldsOrAwaits(r, l) ==
    \/ locks[l].owner = r
    \/ \E i \in 1 .. Len(locks[l].waiters) : locks[l].waiters[i] = r

\* C20, in every state: _lock_for returns, for the session of a run that
\* holds or awaits a lock, that very lock; locks in use are registered
\* under one key only; and for a key without an entry _lock_for returns a
\* lock nobody holds or awaits.
C20_RegistryState ==
    /\ \A r \in Runs :
           /\ (run[r].lock # 0 /\ HoldsOrAwaits(r, run[r].lock))
                  => _lock_for(run[r].resume_token).lock = run[r].lock
           /\ (run[r].session_lock # 0
                   /\ HoldsOrAwaits(r, run[r].session_lock))
                  => _lock_for(LockSession(r, run[r].session_lock)).lock =
                         run[r].session_lock
    /\ \A k1 \in Keys : \A k2 \in Keys :
           (k1 # k2 /\ _session_locks[k1] # 0)
               => _session_locks[k1] # _session_locks[k2]
    /\ \A k \in Keys :
           _session_locks[k] = 0
               => /\ locks[_lock_for(TokenOf(k)).lock].owner = 0
                  /\ locks[_lock_for(TokenOf(k)).lock].waiters = << >>

\* C20, in every step: an entry goes away only when no run references its
\* lock, which is then free, and a new entry holds a free lock.
C20_RegistryStep ==
    \A k \in Keys :
        /\ (_session_locks[k] # 0 /\ _session_locks'[k] # _session_locks[k])
               => /\ _session_locks'[k] = 0
                  /\ _session_locks[k] \notin Referenced
                  /\ locks[_session_locks[k]].owner = 0
                  /\ locks[_session_locks[k]].waiters = << >>
        /\ (_session_locks[k] = 0 /\ _session_locks'[k] # 0)
               => /\ locks[_session_locks'[k]].owner = 0
                  /\ locks[_session_locks'[k]].waiters = << >>

\* C20: reclaiming entries of the weak registry keeps the lock of a session
\* unique while a run holds or awaits it.
C20_ReclaimKeepsExclusion ==
    [] C20_RegistryState /\ [][C20_RegistryStep]_vars

\* C20 witness: the entry of a session a finished run had resumed is gone
\* while the other run holds the lock of its session.
C20_Witness ==
    \E r1 \in Runs : \E r2 \in Runs :
        /\ run[r1].pc \in Ended
        /\ run[r1].resume_token # NoToken
        /\ proc[r1].state = "exited"
        /\ _session_locks[KeyOf(run[r1].resume_token)] = 0
        /\ run[r2].lock # 0
        /\ locks[run[r2].lock].owner = r2

\* The header of the progress text rendered last.
ProgressHeader(r) ==
    _format_header(run[r].rendered.elapsed_s, run[r].renderer.last_turn,
                   "working")

\* C21: for every renderer state, elapsed time and max_chars the text
\* returned by render_progress is at most max_chars long, and it is exactly
\* the header when header, history and current lines together are longer
\* than max_chars.
C21_ProgressWithinBudget ==
    \A r \in Runs :
        run[r].rendered.kind = "progress" =>
            /\ Len(run[r].rendered.text) <= run[r].renderer.max_chars
            /\ Len(_assemble(ProgressHeader(r),
                             ProgressLines(run[r].renderer)))
                   > run[r].renderer.max_chars
               => run[r].rendered.text = ProgressHeader(r)

\* The part of C21 that holds: a composition longer than max_chars is
\* replaced by the header, whatever the header's length.
ProgressDegradesToHeader ==
    \A r \in Runs :
        run[r].rendered.kind = "progress" =>
            /\ Len(_assemble(ProgressHeader(r),
                             ProgressLines(run[r].renderer)))
                   > run[r].renderer.max_chars
               => run[r].rendered.text = ProgressHeader(r)
            /\ Len(run[r].rendered.text) > run[r].renderer.max_chars
               => /\ run[r].rendered.text = ProgressHeader(r)
                  /\ Len(ProgressHeader(r)) > run[r].renderer.max_chars

\* A composition that was too long for a budget the header fits.
ProgressDegraded ==
    /\ run[1].rendered.kind = "progress"
    /\ run[1].rendered.text = ProgressHeader(1)
    /\ ProgressLines(run[1].renderer) # << >>
    /\ Len(ProgressHeader(1)) <= run[1].renderer.max_chars

\* text starts with prefix
StartsWith(text, prefix) ==
    Len(prefix) <= Len(text) /\ SubSeq(text, 1, Len(prefix)) = prefix

\* The ordinal tags a history line can start with.
IdTags == {"[?] "} \cup {"[" \o ToString(n) \o "] " : n \in 0 .. 9}

\* A history line that is the log entry of a completed command.
IsCommandEntry(line) ==
    \E tag \in IdTags : StartsWith(line, tag \o STATUS_DONE \o " ran: ")

\* The final text made of the header, the history lines that are kept and
\* the trimmed answer.
FinalText(r, kept) ==
    LET rd == run[r].rendered
        header == _format_header(rd.elapsed_s, run[r].renderer.last_turn,
                                 rd.status)
        trimmed == Strip(rd.answer)
    IN  _assemble(header, kept)
          \o (IF trimmed # "" THEN "\n\n" \o trimmed ELSE "")

\* C22: render_final for status done omits every history line that is a
\* completed-command log entry and keeps the other history lines in order;
\* for another status all history lines are kept; the trimmed answer is
\* appended after a blank line exactly when it is not empty.
C22_FinalOmitsCommandEntries ==
    \A r \in Runs :
        run[r].rendered.kind = "final" =>
            run[r].rendered.text =
                FinalText(r,
                    IF run[r].rendered.status = "done"
                    THEN SelectSeq(run[r].renderer.recent_actions,
                                   LAMBDA line : ~IsCommandEntry(line))
                    ELSE run[r].renderer.recent_actions)

\* What holds of render_final: for status done the history lines that
\* contain the text of the command marker are omitted, command entry or
\* not.
FinalOmitsMarkedLines ==
    \A r \in Runs :
        run[r].rendered.kind = "final" =>
            run[r].rendered.text =
                FinalText(r,
                    IF run[r].rendered.status = "done"
                    THEN SelectSeq(run[r].renderer.recent_actions,
                            LAMBDA line :
                                ~Contains(line, STATUS_DONE \o " ran:"))
                    ELSE run[r].renderer.recent_actions)

\* A final text for status done rendered from a history with a command
\* entry and another line, with an answer.
FinalWithCommandEntry ==
    /\ run[1].rendered.kind = "final"
    /\ run[1].rendered.status = "done"
    /\ Strip(run[1].rendered.answer) # ""
    /\ \E i, j \in 1 .. Len(run[1].renderer.recent_actions) :
           /\ IsCommandEntry(run[1].renderer.recent_actions[i])
           /\ ~IsCommandEntry(run[1].renderer.recent_actions[j])

\* The positions of run[r].noted that hold an item event.
NotedItems(r) ==
    {i \in 1 .. Len(run[r].noted) : run[r].noted[i].event.type \in ItemEvents}

\* C23: the ordinal shown for an item is a function of its protocol id
\* alone: every time an id appears in a run it resolves to the same ordinal,
\* whatever items were noted in between.
C23_OrdinalFunctionOfId ==
    \A r \in Runs : \A i, j \in NotedItems(r) :
        run[r].noted[i].event.item.id = run[r].noted[j].event.item.id
            => run[r].noted[i].item_id = run[r].noted[j].item_id

\* What holds: an id with a digit in it resolves to the number its first
\* digits spell, every time.
NumberedIdResolvesToItsNumber ==
    \A r \in Runs : \A i \in NotedItems(r) :
        LET id == run[r].noted[i].event.item.id
        IN  (\E k \in 1 .. Len(id) : SubSeq(id, k, k) \in DOMAIN Digit)
                => run[r].noted[i].item_id
                       = _extract_numeric_id(id, NoneInt)

\* An id was noted twice with another item noted in between.
IdNotedTwice ==
    \E i, j \in NotedItems(1) :
        /\ i + 1 < j
        /\ run[1].noted[i].event.item.id = run[1].noted[j].event.item.id
        /\ run[1].noted[i + 1].event.type \in ItemEvents
        /\ run[1].noted[i + 1].event.item.id # run[1].noted[i].event.item.id

\* The step notes a completed item that makes a history line, while an
\* action is current: the event and the ordinal of the item.
CompletedNoted(r) ==
    /\ Len(run'[r].noted) = Len(run[r].noted) + 1
    /\ Truthy(run[r].renderer.current_action)
    /\ LET n == run'[r].noted[Len(run'[r].noted)]
       IN  /\ n.event.type = "item.completed"
           /\ n.event.item.type # "reasoning"
           /\ n.item_id # NoneInt
           /\ \/ _format_item_action_line(n.event.type, n.item_id,
                                          n.event.item) # None
              \/ _format_item_completed_line(n.item_id, n.event.item) # None

NotedOrdinal(r) == run'[r].noted[Len(run'[r].noted)].item_id

\* C30: a completed event whose item id equals the id of the current action
\* clears the current slot (current_action, current_action_id and the
\* paired reasoning) for every item id, 0 included; a completed event with
\* another id leaves the current action in place.
C30_CompletedClearsCurrent ==
    [][\A r \in Runs :
          CompletedNoted(r) =>
              IF NotedOrdinal(r) = run[r].renderer.current_action_id
              THEN /\ run'[r].renderer.current_action = None
                   /\ run'[r].renderer.current_action_id = NoneInt
                   /\ run'[r].renderer.current_reasoning = None
              ELSE /\ run'[r].renderer.current_action
                          = run[r].renderer.current_action
                   /\ run'[r].renderer.current_action_id
                          = run[r].renderer.current_action_id]_vars

\* What holds: the same with the ordinal 0 set aside, for which the current
\* slot is left as it is.
CompletedClearsCurrentUnlessZero ==
    [][\A r \in Runs :
          CompletedNoted(r) =>
              IF /\ NotedOrdinal(r) = run[r].renderer.current_action_id
                 /\ NotedOrdinal(r) # 0
              THEN /\ run'[r].renderer.current_action = None
                   /\ run'[r].renderer.current_action_id = NoneInt
                   /\ run'[r].renderer.current_reasoning = None
              ELSE /\ run'[r].renderer.current_action
                          = run[r].renderer.current_action
                   /\ run'[r].renderer.current_action_id
                          = run[r].renderer.current_action_id]_vars

\* The number of newlines in text.
Newlines(text) ==
    Cardinality({i \in 1 .. Len(text) : SubSeq(text, i, i) = "\n"})

\* The lines of text: each up to and with its newline, and the rest after
\* the last newline when there is one.
RECURSIVE LinesOf(_)
LinesOf(text) ==
    IF text = "" THEN << >>
    ELSE LET ends == {i \in 1 .. Len(text) : SubSeq(text, i, i) = "\n"}
         IN  IF ends = {} THEN << text >>
             ELSE LET first == CHOOSE i \in ends : \A j \in ends : i <= j
                  IN  << SubSeq(text, 1, first) >>
                        \o LinesOf(From(text, first + 1))

\* C24: however the stream is cut into chunks, the fragments yielded by
\* _iter_text_lines concatenate to the whole stream; every fragment ends
\* with its only newline, except possibly the last, which is yielded at the
\* end of the stream only when it is not empty; and the fragments are the
\* same for every cut.
C24_FragmentsAreTheLines ==
    \A r \in Runs :
        LET tl == run[r].text_lines
            n == Len(tl.yielded)
        IN  /\ Join(tl.yielded) \o tl.buffer \o tl.rest = tl.stream
            /\ \A i \in 1 .. n :
                   /\ tl.yielded[i] # ""
                   /\ i < n \/ ~tl.eof =>
                          /\ Newlines(tl.yielded[i]) = 1
                          /\ SubSeq(tl.yielded[i], Len(tl.yielded[i]),
                                    Len(tl.yielded[i])) = "\n"
                   /\ Newlines(tl.yielded[i]) = 1
                      \/ (i = n /\ tl.eof /\ Newlines(tl.yielded[i]) = 0)
            /\ tl.eof => tl.yielded = LinesOf(tl.stream)

\* A stream of a line and an unfinished second line, read to its end.
C24_Witness ==
    LET tl == run[1].text_lines
    IN  /\ tl.eof
        /\ tl.stream = "a\nb"
        /\ tl.yielded = << "a\n", "b" >>

\* An event without the stderr text its detail carries.
WithoutTail(e) ==
    IF e.type = "ActionEvent" /\ "stderr_tail" \in DOMAIN e.action.detail
    THEN [e EXCEPT !.action.detail = NoDetail]
    ELSE e

\* The events that close a run after the lines it read, by its exit code:
\* nothing of them depends on stderr.
ClosingEvents(r) ==
    LET st == LoopState(LoopInit, run[r].resume_token, run[r].lines)
    IN  IF run[r].rc = NoneInt \/ st.did_emit_completed THEN << >>
        ELSE IF run[r].rc # 0
        THEN << _note_completed(next_note_id(st), ExecFailed(run[r].rc),
                                "False", NoDetail),
                _completed_event(resume_for_completed(st, run[r].resume_token),
                                 FALSE, Or(st.final_answer, ""),
                                 ExecFailed(run[r].rc), None) >>
        ELSE << FinalEvent(st, run[r].resume_token) >>

\* C25: the stderr tail of a run never holds more than 200 lines and is
\* always the most recent lines read from stderr, the oldest dropped first;
\* and the events of the run, but for the stderr text in the failure note's
\* detail, are those of the stdout lines and the exit code, whatever stderr
\* held.
C25_StderrTailOnlyDiagnostic ==
    \A r \in Runs :
        LET chunks == run[r].stderr_chunks
            read == run[r].stderr_read
            le == LoopEvents(LoopInit, run[r].resume_token, run[r].lines)
            closing == ClosingEvents(r)
            n == Len(run[r].events) - Len(le)
        IN  /\ Len(chunks) <= 200
            /\ Len(chunks) = IF read < 200 THEN read ELSE 200
            /\ \A i \in 1 .. Len(chunks) :
                   chunks[i] = StderrLine(read - Len(chunks) + i)
            /\ n \in 0 .. Len(closing)
            /\ \A i \in 1 .. Len(run[r].events) :
                   WithoutTail(run[r].events[i]) =
                       IF i <= Len(le) THEN le[i] ELSE closing[i - Len(le)]

\* A run that read more than 200 stderr lines and closed with the failure
\* note, which carries the last 200.
C25_Witness ==
    /\ run[1].stderr_read > 200
    /\ run[1].rc = 137
    /\ run[1].pc = "done"
    /\ \E i \in 1 .. Len(run[1].events) :
           /\ run[1].events[i].type = "ActionEvent"
           /\ "stderr_tail" \in DOMAIN run[1].events[i].action.detail
           /\ Len(run[1].events[i].action.detail.stderr_tail) = 200
           /\ run[1].events[i].action.detail.stderr_tail[1] = StderrLine(2)

\* The values of the two keys in the config that was loaded.
LoadedToken(r) == ConfigGet(run[r].setup.load.config, "bot_token")
LoadedChatId(r) == ConfigGet(run[r].setup.load.config, "chat_id")

\* The parts of C26 about the single flags: missing_codex tells whether the
\* executable is missing, whatever the config; a string chat_id sets
\* missing_or_invalid_config; a ConfigError sets it with config_path equal
\* to HOME_CONFIG_PATH.
SetupFlags(r) ==
    LET s == run[r].setup
    IN  /\ s.result.missing_codex = (s.which = None)
        /\ (s.which = None /\ ~s.load.raises
              /\ LoadedToken(r) = PyValue("str", "token")
              /\ LoadedChatId(r) = PyValue("int", "123"))
           => ~s.result.missing_or_invalid_config
        /\ (~s.load.raises /\ LoadedChatId(r).type = "str")
           => s.result.missing_or_invalid_config
        /\ s.load.raises
           => /\ s.result.missing_or_invalid_config
              /\ s.result.config_path = HOME_CONFIG_PATH

\* C26 as stated: check_setup returns ok exactly when the executable is
\* found and the config loads with a non-empty string bot_token and an
\* integer chat_id that is no bool; with the parts about the single flags.
C26_OkIffExecutableAndNonEmptyToken ==
    \A r \in Runs :
        run[r].setup.checked =>
            LET s == run[r].setup
            IN  /\ SetupOk(s.result) <=>
                       /\ s.which # None
                       /\ ~s.load.raises
                       /\ LoadedToken(r).type = "str"
                       /\ LoadedToken(r).value # ""
                       /\ LoadedChatId(r).type = "int"
                /\ SetupFlags(r)

\* C26: check_setup returns ok exactly when the executable is found and the
\* config loads with a string bot_token that is not blank (not empty once
\* its surrounding whitespace is removed) and an integer chat_id that is no
\* bool; with the parts about the single flags.
C26_OkIffExecutableAndNonBlankToken ==
    \A r \in Runs :
        run[r].setup.checked =>
            LET s == run[r].setup
            IN  /\ SetupOk(s.result) <=>
                       /\ s.which # None
                       /\ ~s.load.raises
                       /\ LoadedToken(r).type = "str"
                       /\ \E i \in 1 .. Len(LoadedToken(r).value) :
                              SubSeq(LoadedToken(r).value, i, i)
                                  \notin Whitespace
                       /\ LoadedChatId(r).type = "int"
                /\ SetupFlags(r)

\* A setup that was checked and is ok, with a token that has whitespace
\* around it.
C26_Witness ==
    /\ run[1].setup.checked
    /\ SetupOk(run[1].setup.result)
    /\ LoadedToken(1) = PyValue("str", " token\n")
    /\ run[1].setup.result.config_path = "takopi.toml"

\* Thread t has the lock _lock_for returned to it.
HasLock(t) == bridge.thread[t].pc \in {"lock_wait", "run"}
                  /\ bridge.thread[t].session_id # None

\* C27: run_serialized never lets two threads execute run for one
\* session_id at the same time; the _lock_for calls for one session_id
\* return the same lock object, of which the dict holds no second one; a
\* call without a session_id takes no lock.
C27_RunSerializedPerSession ==
    /\ \A t1, t2 \in Threads :
           (/\ t1 # t2
            /\ bridge.thread[t1].session_id = bridge.thread[t2].session_id
            /\ bridge.thread[t1].session_id # None)
               => /\ ~(bridge.thread[t1].pc = "run"
                         /\ bridge.thread[t2].pc = "run")
                  /\ (HasLock(t1) /\ HasLock(t2))
                         => bridge.thread[t1].lock = bridge.thread[t2].lock
    /\ \A t \in Threads :
           /\ HasLock(t)
                  => /\ bridge.thread[t].lock # 0
                     /\ bridge.thread[t].lock
                            = bridge._locks[bridge.thread[t].session_id]
           /\ (bridge.thread[t].pc = "run" /\ HasLock(t))
                  => bridge.owner[bridge.thread[t].lock] = t
           /\ bridge.thread[t].session_id = None
                  => /\ bridge.thread[t].pc \in {"idle", "run"}
                     /\ bridge.thread[t].lock = 0
                     /\ \A l \in BridgeLockIds : bridge.owner[l] # t
    /\ bridge.created <= Cardinality(Sessions)

\* Two threads with messages for one session, one in run and the other
\* waiting for the same lock, while a third runs without a session.
C27_Witness ==
    \E t1, t2, t3 \in Threads :
        /\ bridge.thread[t1].pc = "run"
        /\ bridge.thread[t1].session_id = "S1"
        /\ bridge.thread[t2].pc = "lock_wait"
        /\ bridge.thread[t2].session_id = "S1"
        /\ bridge.thread[t2].lock = bridge.thread[t1].lock
        /\ bridge.thread[t3].pc = "run"
        /\ bridge.thread[t3].session_id = None

\* The pcs at which the stdout decoding loop of a run is still going: before
\* a read, between a yield and the next read, and waiting for the lock a
\* StartedEvent needs.
DecodingPcs == {"read_stdout", "yield_loop", "session_lock_wait"}

\* C28: when manage_subprocess tears the process of a run down (a signal
\* has been sent, or the run waits for the exit after one), the stdout
\* decoding loop of that run is over and its stderr drain task is not
\* reading: the task has finished or been cancelled, or was never started.
C28_TeardownAfterBothTasks ==
    \A r \in Runs :
        (run[r].pc \in TeardownPcs \/ proc[r].signals # << >>)
            => /\ run[r].pc \notin DecodingPcs
               /\ run[r].drain # "running"

\* C28 witness: SIGTERM was sent to a process whose run had decoded stdout
\* lines and drained stderr lines, and the drain task was cancelled.
C28_Witness ==
    \E r \in Runs :
        /\ run[r].pc = "teardown_wait"
        /\ proc[r].signals = << "SIGTERM" >>
        /\ run[r].drain = "cancelled"
        /\ run[r].lines # << >>
        /\ run[r].stderr_chunks # << >>

\* The record of an error line or of a turn.rate_limited line.
IsErrorRecord(raw_line) ==
    raw_line.json = "object" /\ Get(raw_line.evt, "type") = "error"

IsRateLimited(raw_line) ==
    raw_line.json = "object"
        /\ Get(raw_line.evt, "type") = "turn.rate_limited"

\* The fatal field of an error record is true, or the record has none.
FatalTrueOrAbsent(raw_line) ==
    \/ "fatal" \notin DOMAIN raw_line.evt
    \/ raw_line.evt.fatal = "True"

\* The message the note of a record carries.
WarningMessage(raw_line) ==
    IF IsErrorRecord(raw_line)
    THEN IF "message" \in DOMAIN raw_line.evt
         THEN raw_line.evt.message ELSE "codex error"
    ELSE IF "retry_after_ms" \in DOMAIN raw_line.evt
    THEN "rate limited (retry after " \o raw_line.evt.retry_after_ms \o "ms)"
    ELSE "rate limited"

\* The step of run r that reads raw_line while the translation is going on
\* (no CompletedEvent has been emitted).
TranslatesLine(r, raw_line) ==
    /\ run'[r].lines = Append(run[r].lines, raw_line)
    /\ ~run[r].loop.did_emit_completed

\* C29 (step): reading an error record emits a CompletedEvent exactly when
\* its fatal field is true or absent; reading an error record with another
\* fatal field, or a turn.rate_limited record, adds exactly one event, a
\* completed-phase warning note with the record's message and the next
\* note id, emits no CompletedEvent and leaves the run in its stdout loop,
\* where later records are translated.
C29_NonFatalStep ==
    \A r \in Runs :
    \A raw_line \in TranslateLines :
        TranslatesLine(r, raw_line)
            => /\ IsErrorRecord(raw_line)
                      => (FatalTrueOrAbsent(raw_line)
                              <=> /\ Len(run'[r].events) = Len(run[r].events) + 1
                                  /\ run'[r].events[Len(run'[r].events)].type
                                         = "CompletedEvent"
                                  /\ run'[r].loop.did_emit_completed)
               /\ (\/ IsRateLimited(raw_line)
                   \/ IsErrorRecord(raw_line) /\ ~FatalTrueOrAbsent(raw_line))
                      => /\ Len(run'[r].events) = Len(run[r].events) + 1
                         /\ SubSeq(run'[r].events, 1, Len(run[r].events))
                                = run[r].events
                         /\ LET e == run'[r].events[Len(run'[r].events)]
                            IN  /\ IsWarningNote(e)
                                /\ e.message = WarningMessage(raw_line)
                                /\ e.action.id =
                                       NoteId(run[r].loop.note_seq + 1)
                         /\ ~run'[r].loop.did_emit_completed
                         /\ run'[r].loop.note_seq = run[r].loop.note_seq + 1
                         /\ run'[r].exc = None
                         /\ run'[r].pc = "yield_loop"
                         /\ proc'[r] = proc[r]

\* C29: the property above, of every step of every run.
C29_NonFatalRecordsBecomeNotes == [][C29_NonFatalStep]_vars

\* C29 witness: a rate-limit record and a non-fatal error record each gave
\* a warning note, and the record read after them was translated too.
C29_Witness ==
    \E r \in Runs :
        /\ Len(run[r].lines) = 3
        /\ IsRateLimited(run[r].lines[1])
        /\ IsErrorRecord(run[r].lines[2])
        /\ ~FatalTrueOrAbsent(run[r].lines[2])
        /\ IsErrorRecord(run[r].lines[3])
        /\ "fatal" \notin DOMAIN run[r].lines[3].evt
        /\ Len(run[r].events) = 3
        /\ IsWarningNote(run[r].events[1])
        /\ IsWarningNote(run[r].events[2])
        /\ run[r].events[3].type = "CompletedEvent"

\* The last max_actions entries of a sequence of lines.
MostRecent(entries) ==
    IF Len(entries) <= max_actions THEN entries
    ELSE SubSeq(entries, Len(entries) - max_actions + 1, Len(entries))

\* The event run r notes in this step.
Noting(r) == Len(run'[r].noted) = Len(run[r].noted) + 1

LastNoted(r) == run'[r].noted[Len(run'[r].noted)]

\* The completion line of a noted item.completed event, None when the item
\* has none (a reasoning item, an item of an unknown type).
CompletionLine(n) ==
    IF n.event.type # "item.completed" THEN None
    ELSE IF n.event.item.type = "reasoning" THEN None
    ELSE LET action_line ==
                 _format_item_action_line(n.event.type, n.item_id,
                                          n.event.item)
         IN  IF action_line # None THEN action_line
             ELSE _format_item_completed_line(n.item_id, n.event.item)

\* C31 (step): an event with a completion line leaves in the history the
\* most recent max_actions entries of the history before it followed by the
\* attached reasoning note, if there is one, and then the completion line;
\* every other event leaves the history as it was.
C31_HistoryStep ==
    \A r \in Runs :
        Noting(r)
            => LET line == CompletionLine(LastNoted(r))
                   attached == run[r].renderer.current_reasoning
                   before == run[r].renderer.recent_actions
               IN  run'[r].renderer.recent_actions =
                       IF line = None THEN before
                       ELSE IF attached # None
                       THEN MostRecent(before \o << attached, line >>)
                       ELSE MostRecent(before \o << line >>)

\* C31: the step property above, and the history never holds more than
\* max_actions entries.
C31_BoundedHistoryInOrder ==
    /\ [][C31_HistoryStep]_vars
    /\ [](\A r \in Runs : Len(run[r].renderer.recent_actions) <= max_actions)

\* C31 witness: six completion lines were appended, the history is full
\* and the first of them has been evicted.
C31_Witness ==
    \E r \in Runs :
        /\ Len(run[r].noted) = 6
        /\ \A i \in 1 .. 6 : CompletionLine(run[r].noted[i]) # None
        /\ Len(run[r].renderer.recent_actions) = max_actions
        /\ run[r].renderer.recent_actions[1]
               = CompletionLine(run[r].noted[2])

\* The noted event n is the start of an action that has a line (a command
\* or a tool call).
IsStartedAction(n) ==
    /\ n.event.type = "item.started"
    /\ _format_item_action_line(n.event.type, n.item_id, n.event.item) # None

\* C32 (step): noting the start of an action leaves that action's line and
\* id in the current-action slot and the history as it was; a change is
\* reported exactly when the line or the id differs from the slot before;
\* when they differ a pending reasoning note becomes the note attached to
\* the current action and the pending slot is emptied; when they do not,
\* both notes stay where they were; and the same event noted twice in a row
\* changes nothing of the state and reports no change the second time.
C32_StartedStep ==
    \A r \in Runs :
        (Noting(r) /\ IsStartedAction(LastNoted(r)))
            => LET n == LastNoted(r)
                   line == _format_item_action_line(n.event.type, n.item_id,
                                                    n.event.item)
                   old == run[r].renderer
                   new == run'[r].renderer
                   differs == \/ old.current_action # line
                              \/ old.current_action_id # n.item_id
               IN  /\ new.current_action = line
                   /\ new.current_action_id = n.item_id
                   /\ new.recent_actions = old.recent_actions
                   /\ n.changed <=> differs
                   /\ (differs /\ old.pending_reasoning # None)
                          => /\ new.current_reasoning = old.pending_reasoning
                             /\ new.pending_reasoning = None
                   /\ (~differs)
                          => /\ new.current_reasoning = old.current_reasoning
                             /\ new.pending_reasoning = old.pending_reasoning
                   /\ (/\ run[r].noted # << >>
                       /\ run[r].noted[Len(run[r].noted)].event = n.event)
                          => (new = old /\ ~n.changed)

\* C32: the property above, of every step of every renderer.
C32_StartedSetsCurrentAction == [][C32_StartedStep]_vars

\* C32 witness: a reasoning note was pending when an action started, the
\* start attached it and reported a change, and the same start noted again
\* reported none.
C32_Witness ==
    \E r \in Runs :
        /\ Len(run[r].noted) = 3
        /\ run[r].noted[1].event.type = "item.completed"
        /\ run[r].noted[1].event.item.type = "reasoning"
        /\ IsStartedAction(run[r].noted[2])
        /\ run[r].noted[2].changed
        /\ run[r].noted[3].event = run[r].noted[2].event
        /\ ~run[r].noted[3].changed
        /\ run[r].renderer.current_reasoning # None
        /\ run[r].renderer.pending_reasoning = None

\* The noted event n is a reasoning item with a text.
IsReasoningNote(n) ==
    /\ n.event.type \in ItemEvents
    /\ n.event.item.type = "reasoning"
    /\ _format_reasoning(n.event.item.text) # ""

\* The line of a reasoning note.
ReasoningLine(n) == _with_id(n.item_id, _format_reasoning(n.event.item.text))

\* The reasoning event of this step left its note pending: the history,
\* the note attached to the current action and the lines of the progress
\* text are what they were.
StoredAsPending(r) ==
    /\ run'[r].renderer.pending_reasoning = ReasoningLine(LastNoted(r))
    /\ run'[r].renderer.current_reasoning = run[r].renderer.current_reasoning
    /\ run'[r].renderer.recent_actions = run[r].renderer.recent_actions
    /\ ProgressLines(run'[r].renderer) = ProgressLines(run[r].renderer)

\* The reasoning event of this step paired its note with the current
\* action: the history and the pending slot are what they were.
PairedWithCurrent(r) ==
    /\ run'[r].renderer.current_reasoning = ReasoningLine(LastNoted(r))
    /\ run'[r].renderer.pending_reasoning = run[r].renderer.pending_reasoning
    /\ run'[r].renderer.current_action = run[r].renderer.current_action
    /\ run'[r].renderer.recent_actions = run[r].renderer.recent_actions

\* C33 (as claimed, step): a reasoning note that arrives while there is no
\* current action is stored as pending, out of the progress text and of the
\* history; one that arrives while there is a current action is paired
\* with it and not appended to the history.
C33_ReasoningStep ==
    \A r \in Runs :
        (Noting(r) /\ IsReasoningNote(LastNoted(r)))
            => IF run[r].renderer.current_action = None
               THEN StoredAsPending(r)
               ELSE PairedWithCurrent(r)

C33_ReasoningPendingOrPaired == [][C33_ReasoningStep]_vars

\* C33 (amended, step): as above, except that a note that arrives while
\* the current action already has a note attached is stored as pending
\* too, and the attached note stays.
C33_FirstReasoningStep ==
    \A r \in Runs :
        (Noting(r) /\ IsReasoningNote(LastNoted(r)))
            => IF \/ run[r].renderer.current_action = None
                  \/ run[r].renderer.current_reasoning # None
               THEN StoredAsPending(r)
               ELSE PairedWithCurrent(r)

C33_ReasoningPairsOnlyFirst == [][C33_FirstReasoningStep]_vars

\* C33 witness: one note arrived before any action and was attached by the
\* start of the action, a second one arrived during the action and stays
\* pending.
C33_Witness ==
    \E r \in Runs :
        /\ Len(run[r].noted) = 3
        /\ IsReasoningNote(run[r].noted[1])
        /\ IsStartedAction(run[r].noted[2])
        /\ IsReasoningNote(run[r].noted[3])
        /\ run[r].renderer.current_reasoning = ReasoningLine(run[r].noted[1])
        /\ run[r].renderer.pending_reasoning = ReasoningLine(run[r].noted[3])
        /\ run[r].noted[1].event # run[r].noted[3].event
        /\ run[r].rendered.kind = "progress"

\* The positions of run[r].noted that hold the reasoning note with this
\* line, and the positions of the history that hold the line.
NotedAs(r, line) ==
    {i \in 1 .. Len(run[r].noted) :
        IsReasoningNote(run[r].noted[i]) /\ ReasoningLine(run[r].noted[i]) = line}

InHistory(r, line) ==
    {i \in 1 .. Len(run[r].renderer.recent_actions) :
        run[r].renderer.recent_actions[i] = line}

\* C39: a reasoning note that was noted once, and so attached to a current
\* action at most once, stands in the history at most once, whatever
\* completed events followed.
C39_ReasoningAppendedOnce ==
    \A r \in Runs :
        \A i \in 1 .. Len(run[r].noted) :
            (IsReasoningNote(run[r].noted[i])
                 /\ Cardinality(NotedAs(r, ReasoningLine(run[r].noted[i]))) = 1)
                => Cardinality(InHistory(r, ReasoningLine(run[r].noted[i]))) <= 1

\* The kind table of the item types.
KindTable ==
    [command_execution |-> "command", mcp_tool_call |-> "tool",
     tool_call |-> "tool", web_search |-> "web_search",
     file_change |-> "file_change", reasoning |-> "note",
     todo_list |-> "note"]

AnswerTypes == {"agent_message", "assistant_message"}

\* The type an item record names, under either of its keys.
NamedType(item) ==
    IF "type" \in DOMAIN item THEN item.type ELSE item.item_type

\* The step of run r reads an item record while the translation is going
\* on.
TranslatesItem(r) ==
    /\ Len(run'[r].lines) = Len(run[r].lines) + 1
    /\ ~run[r].loop.did_emit_completed
    /\ LET l == run'[r].lines[Len(run'[r].lines)]
       IN  l.json = "object" /\ Get(l.evt, "type") \in ItemEvents

ItemRead(r) == run'[r].lines[Len(run'[r].lines)].evt

\* The events the step of run r added.
Yielded(r) ==
    SubSeq(run'[r].events, Len(run[r].events) + 1, Len(run'[r].events))

\* What C34 says of an item of a type of the table and of an answer item:
\* an item of a type of the table yields at most one event, an ActionEvent
\* of the kind the table gives, with the item's id and the record's phase,
\* and yields one whenever it has an id (a file change only when
\* completed); an agent_message or assistant_message item yields no event
\* in any phase and its text becomes the answer on item.completed; no other
\* item changes the answer.
MappedAndAnswerItems(r) ==
    LET evt == ItemRead(r)
        t == NamedType(evt.item)
        out == Yielded(r)
    IN  /\ t \in DOMAIN KindTable
            => /\ Len(out) <= 1
               /\ \A i \in 1 .. Len(out) :
                      /\ out[i].type = "ActionEvent"
                      /\ out[i].action.kind = KindTable[t]
                      /\ out[i].action.id = evt.item.id
                      /\ out[i].phase = PhaseOf(evt.type)
               /\ ("id" \in DOMAIN evt.item
                     /\ (t = "file_change" => evt.type = "item.completed"))
                      => Len(out) = 1
        /\ t \in AnswerTypes
            => /\ out = << >>
               /\ run'[r].loop.final_answer =
                      IF evt.type = "item.completed" THEN evt.item.text
                      ELSE run[r].loop.final_answer
        /\ t \notin AnswerTypes
            => run'[r].loop.final_answer = run[r].loop.final_answer

\* C34 (as claimed, step): item records go through the kind table, an
\* answer item only updates the answer, and an item of any type outside
\* the table yields no event.
C34_ItemStep ==
    \A r \in Runs :
        TranslatesItem(r)
            => /\ MappedAndAnswerItems(r)
               /\ NamedType(ItemRead(r).item) \notin DOMAIN KindTable
                      => Yielded(r) = << >>

C34_ItemStepWithErrorItems ==
    \A r \in Runs :
        TranslatesItem(r)
            => LET t == NamedType(ItemRead(r).item)
                   out == Yielded(r)
               IN  /\ MappedAndAnswerItems(r)
                   /\ (t \notin DOMAIN KindTable /\ t # "error")
                          => out = << >>
                   /\ (t = "error" /\ ItemRead(r).type # "item.completed")
                          => out = << >>
                   /\ (t = "error" /\ ItemRead(r).type = "item.completed")
                          => /\ Len(out) = 1
                             /\ IsWarningNote(out[1])
                             /\ out[1].action.id = ItemRead(r).item.id

OwnsOrQueues(r, l) ==
    \/ locks[l].owner = r
    \/ \E i \in 1 .. Len(locks[l].waiters) : locks[l].waiters[i] = r

\* C35 (state): a run that has ended owns no lock and is queued for none,
\* and the owner of a lock is a run that refers to it as its resume lock
\* or as its session lock.
C35_EndedRunHoldsNothing ==
    /\ \A r \in Runs : \A l \in LockIds :
           run[r].pc \in Ended => ~OwnsOrQueues(r, l)
    /\ \A l \in LockIds :
           locks[l].owner # 0
               => \/ run[locks[l].owner].lock = l
                  \/ run[locks[l].owner].session_lock = l

\* C35 (step): a lock leaves its owner only in a step of that owner which
\* ends the run or leaves its scopes, and it goes to the first waiter or
\* is free; a run that leaves its scopes without owning a lock (cancelled
\* while queued for it included) leaves the owner of that lock alone.
C35_ReleaseStep ==
    \A l \in LockIds :
        LET o == locks[l].owner
        IN  (o # 0 /\ locks'[l].owner # o)
                => /\ run[o].pc \notin Ended
                   /\ run'[o].pc \in Ended \cup TeardownPcs
                   /\ run'[o].lock # l
                   /\ run'[o].pc \in Ended => run'[o].session_lock # l
                   /\ locks'[l].owner =
                          IF locks[l].waiters = << >> THEN 0
                          ELSE Head(locks[l].waiters)

\* C35: every lock a run acquired is released when the run ends, to the
\* next waiter, and no run releases a lock it does not own.
C35_LocksReleasedByOwnerOnly ==
    [] C35_EndedRunHoldsNothing /\ [][C35_ReleaseStep]_vars

\* C35 witness: a new run read thread.started for a session whose lock
\* another run holds, was cancelled while it waited for that lock and has
\* ended, and the other run still owns the lock.
C35_Witness ==
    \E r \in Runs : \E o \in Runs \ {r} :
        /\ run[r].pc = "cancelled"
        /\ run[r].resume_token = NoToken
        /\ run[r].lines # << >>
        /\ IsThreadStarted(run[r].lines[1])
        /\ run[r].events = << >>
        /\ run[o].pc \notin Ended
        /\ \E l \in LockIds :
               /\ locks[l].owner = o
               /\ LockSession(o, l) =
                      ResumeToken(ENGINE, run[r].lines[1].evt.thread_id)

\* The step cancels run r while it waits for the lock of the session it
\* resumes.
CancelledInLockWait(r) ==
    run[r].pc = "lock_wait" /\ run'[r].pc = "cancelled"

\* C36 (step): a run cancelled while it waits for the lock of the session
\* it resumes has no process and no event, before and after; the step
\* takes it out of the queue of the lock and changes nothing of the other
\* runs, of their processes or of the lock's owner when that is another
\* run.
C36_CancelStep ==
    \A r \in Runs :
        CancelledInLockWait(r)
            => LET l == run[r].lock
               IN  /\ proc[r].state = "none"
                   /\ proc'[r] = proc[r]
                   /\ run'[r].events = << >>
                   /\ run'[r].exc = "Cancelled"
                   /\ \A i \in 1 .. Len(locks'[l].waiters) :
                          locks'[l].waiters[i] # r
                   /\ locks'[l].owner # r
                   /\ locks[l].owner # r => locks'[l].owner = locks[l].owner
                   /\ \A o \in Runs \ {r} :
                          run'[o] = run[o] /\ proc'[o] = proc[o]

\* C36 (state): a run that was cancelled before it had a process has no
\* event, owns no lock and is queued for none, so that the holder's release
\* never hands the lock to it.
C36_CancelledState ==
    \A r \in Runs :
        (run[r].pc = "cancelled" /\ proc[r].state = "none")
            => /\ run[r].events = << >>
               /\ \A l \in LockIds : ~OwnsOrQueues(r, l)

C36_CancelledWaiterLeavesNoTrace ==
    [] C36_CancelledState /\ [][C36_CancelStep]_vars

\* C36 witness: run 2 resumed the session run 1 holds, was cancelled in
\* the queue, and run 1 went on to its end and released the lock.
C36_Witness ==
    /\ run[2].pc = "cancelled"
    /\ proc[2].state = "none"
    /\ run[2].resume_token # NoToken
    /\ run[1].resume_token = run[2].resume_token
    /\ run[1].pc = "done"
    /\ CompletedEvents(1) # << >>
    /\ \A l \in LockIds : locks[l].owner = 0 /\ locks[l].waiters = << >>

\* The run read stdout to its end after exit code 0; among the lines it
\* read, one announced a session and none was a terminal record.
CleanExitWithSession(r) ==
    /\ run[r].pc \in {"yield_final", "done"}
    /\ run[r].rc = 0
    /\ \E i \in 1 .. Len(run[r].lines) : IsThreadStarted(run[r].lines[i])
    /\ \A i \in 1 .. Len(run[r].lines) :
           ~IsFailureRecord(run[r].lines[i]) /\ ~IsTurnCompleted(run[r].lines[i])

\* The session the first thread.started line of run r announced.
ObservedSession(r) ==
    LET i == CHOOSE i \in 1 .. Len(run[r].lines) : FirstThreadStartedAt(r, i)
    IN  ResumeToken(ENGINE, run[r].lines[i].evt.thread_id)

\* C37: a run whose stdout ended with exit code 0, with a session observed
\* and no terminal record read, ends with its only CompletedEvent, which
\* has ok=true, no error, the observed session as resume and the text of
\* the latest agent message ("" when there is none) as answer.
C37_CleanExitCompletesOk ==
    \A r \in Runs :
        CleanExitWithSession(r)
            => LET e == run[r].events[Len(run[r].events)]
               IN  /\ run[r].events # << >>
                   /\ Len(CompletedEvents(r)) = 1
                   /\ e.type = "CompletedEvent"
                   /\ e.ok
                   /\ e.error = None
                   /\ e.resume = ObservedSession(r)
                   /\ e.answer = LastAnswer(run[r].lines)

\* C37 witness: a new run whose process announced a session, completed two
\* agent messages and exited with code 0; the run returned.
C37_Witness ==
    \E r \in Runs :
        /\ CleanExitWithSession(r)
        /\ run[r].pc = "done"
        /\ run[r].resume_token = NoToken
        /\ Len(run[r].lines) = 3
        /\ LastAnswer(SubSeq(run[r].lines, 1, 2)) = "a1"
        /\ LastAnswer(run[r].lines) = "a2"

\* The resume a CompletedEvent of run r has to carry once the lines of
\* raw_lines were read: the session of the first thread.started record
\* among them, the caller's token without such a record.
ExpectedResume(r, raw_lines) ==
    IF \E i \in 1 .. Len(raw_lines) : IsThreadStarted(raw_lines[i])
    THEN LET i == CHOOSE i \in 1 .. Len(raw_lines) :
                      /\ IsThreadStarted(raw_lines[i])
                      /\ \A j \in 1 .. i - 1 : ~IsThreadStarted(raw_lines[j])
         IN  ResumeToken(ENGINE, raw_lines[i].evt.thread_id)
    ELSE run[r].resume_token

C38_ResumeStep ==
    \A r \in Runs :
        LET old == run[r].events
            new == run'[r].events
        IN  \A k \in Len(old) + 1 .. Len(new) :
                new[k].type = "CompletedEvent"
                    => /\ new[k].resume = ExpectedResume(r, run'[r].lines)
                       /\ (new[k].resume = NoToken)
                              => /\ run[r].resume_token = NoToken
                                 /\ \A i \in 1 .. Len(run'[r].lines) :
                                        ~IsThreadStarted(run'[r].lines[i])

\* C38: every CompletedEvent a run emits carries as resume the session the
\* process announced in the lines read so far when there is one, otherwise
\* the caller's resume token; it is absent only in a run started without
\* token that read no session.
C38_ResumeOfCompleted == [][C38_ResumeStep]_vars

\* C38 witness: a resuming run that read no session returned after its
\* only CompletedEvent, which carries the caller's token.
C38_Witness ==
    \E r \in Runs :
        /\ run[r].pc = "done"
        /\ run[r].resume_token # NoToken
        /\ \A i \in 1 .. Len(run[r].lines) : ~IsThreadStarted(run[r].lines[i])
        /\ Len(CompletedEvents(r)) = 1
        /\ CompletedEvents(r)[1].resume = run[r].resume_token

\* A new run that read a session closed with that session as resume.
C38_WitnessAnnounced ==
    \E r \in Runs :
        /\ run[r].pc = "done"
        /\ run[r].resume_token = NoToken
        /\ Len(CompletedEvents(r)) = 1
        /\ CompletedEvents(r)[1].resume # NoToken

\* run() is called on run r with a resume token of another engine.
ForeignStart(r) ==
    /\ run[r].pc = "idle"
    /\ run'[r].pc # "idle"
    /\ run'[r].resume_token # NoToken
    /\ run'[r].resume_token.engine # ENGINE

C40_ForeignStep ==
    \A r \in Runs :
        ForeignStart(r)
            => /\ run'[r].pc = "raised"
               /\ run'[r].exc = "RuntimeError: engine"
               /\ run'[r].events = << >>
               /\ run'[r].lock = run[r].lock
               /\ run'[r].session_lock = run[r].session_lock
               /\ proc' = proc
               /\ proc[r].state = "none"
               /\ _session_locks' = _session_locks
               /\ locks' = locks

\* A run that failed on a foreign token never owned or awaited a lock, has
\* no process and has emitted nothing.
C40_ForeignState ==
    \A r \in Runs :
        (run[r].resume_token # NoToken /\ run[r].resume_token.engine # ENGINE)
            => /\ run[r].pc = "raised"
               /\ run[r].events = << >>
               /\ proc[r].state = "none"
               /\ \A l \in DOMAIN locks : ~OwnsOrQueues(r, l)

\* C40: run() with a resume token of an engine other than codex raises at
\* once: no lock is looked up, created, acquired or awaited, no process is
\* spawned, the lock registry and the locks stay as they were and the run
\* emits no event, then or later.
C40_ForeignTokenFailsFirst == []C40_ForeignState /\ [][C40_ForeignStep]_vars

\* C40 witness: a run was refused for its foreign token while another run
\* of the runner holds the lock of its session in a non-empty registry.
C40_Witness ==
    \E r, o \in Runs :
        /\ run[r].pc = "raised"
        /\ run[r].exc = "RuntimeError: engine"
        /\ run[r].resume_token.engine # ENGINE
        /\ o # r
        /\ run[o].pc \notin Ended
        /\ \E l \in DOMAIN locks : locks[l].owner = o
        /\ \E k \in Keys : _session_locks[k] # 0

====
